---- MODULE Spec2Model ----
(***************************************************************************)
(* GRC domain models (TypeScript implementation): Framework, Control,      *)
(* Evidence and Risk entities with their validating factories, status      *)
(* transitions and derived readers, over the Result / ValidationError      *)
(* core and the identifier value objects.                                  *)
(*                                                                         *)
(* Strings are sequences of one-character strings, so that trim() and the  *)
(* version pattern are computed character by character.  Dates are their   *)
(* millisecond time values (integers); InvalidDate is a Date whose time    *)
(* value is NaN, NullDate is the null of `Date | null`.                    *)
(***************************************************************************)
EXTENDS Integers, Sequences, FiniteSets, TLC

VARIABLES
    now,        \* the ambient clock, the value `new Date()` returns
    risk,       \* the Risk snapshot the caller holds (NoEntity before creation)
    control,    \* the Control snapshot the caller holds
    framework,  \* the Framework snapshot the caller holds
    evidence,   \* the Evidence snapshot the caller holds
    origin,     \* per entity kind, the input of the factory call that made it
    last,       \* the last call: operation, arguments, snapshot passed, result
    heap,       \* the objects in memory, by address (shared snapshots only)
    held,       \* per caller, the address of the snapshot it got last
    calls,      \* how many calls the callers have made on shared snapshots
    prev        \* the Framework or Control transition made before the last one

vars == <<now, risk, control, framework, evidence, origin, last, heap, held,
          calls, prev>>

(***************************************************************************)
(* Bounds                                                                  *)
(***************************************************************************)
MaxTime == 2        \* clock values and timestamps range over 0..MaxTime
MaxStrLen == 2      \* longest id / code / title / name string
MaxLevel == 2       \* how many of the four RiskLevels the Risk life cycle draws
MaxVersionLen == 5  \* longest version string
MaxOver == 3        \* percentage() is tried on -MaxOver .. 100 + MaxOver
MaxCalls == 2       \* calls the two callers make between them on one snapshot

(***************************************************************************)
(* Strings                                                                 *)
(***************************************************************************)
Chars == {"a", " "}

\* the characters String.prototype.trim() strips
JsWhiteSpace == {" "}

StringsUpTo(alphabet, n) == UNION {[1..k -> alphabet] : k \in 0..n}

Strings == StringsUpTo(Chars, MaxStrLen)

\* the strings the life cycles draw identifiers from
ShortStrings == StringsUpTo(Chars, 1)

\* the titles and names the life cycles draw from
LifecycleTitles == {<<>>, <<"a">>}

RECURSIVE TrimStart(_)
TrimStart(s) ==
    IF s # <<>> /\ Head(s) \in JsWhiteSpace THEN TrimStart(Tail(s)) ELSE s

RECURSIVE TrimEnd(_)
TrimEnd(s) ==
    IF s # <<>> /\ s[Len(s)] \in JsWhiteSpace
    THEN TrimEnd(SubSeq(s, 1, Len(s) - 1))
    ELSE s

trim(s) == TrimEnd(TrimStart(s))

\* `!value || value.trim().length === 0`
IsBlank(s) == s = <<>> \/ Len(trim(s)) = 0

(***************************************************************************)
(* Dates                                                                   *)
(***************************************************************************)
InvalidDate == -1
NullDate == -2

Times == 0..MaxTime
Dates == Times \cup {InvalidDate}

\* the values of a `Date | null` field
NullableDates == Dates \cup {NullDate}

\* relational comparison of two Dates: by time value, false when either is NaN
DateLE(a, b) == a # InvalidDate /\ b # InvalidDate /\ a <= b
DateLT(a, b) == a # InvalidDate /\ b # InvalidDate /\ a < b
DateGT(a, b) == a # InvalidDate /\ b # InvalidDate /\ a > b

(***************************************************************************)
(* Result and ValidationError                                              *)
(***************************************************************************)
ok(value) == [ok |-> TRUE, value |-> value]

err(error) == [ok |-> FALSE, error |-> error]

validationError(field, message, code) ==
    [field |-> field, message |-> message, code |-> code]

(***************************************************************************)
(* Identifier value objects                                                *)
(***************************************************************************)
\* createId testing for the empty string only
createId_EmptyOnly(value, typeName) ==
    IF value = <<>>
    THEN err(validationError("id", typeName \o " cannot be empty", "EMPTY_ID"))
    ELSE ok(value)

\* createId returning the trimmed string
createId_Trimming(value, typeName) ==
    IF value = <<>> \/ Len(trim(value)) = 0
    THEN err(validationError(typeName, "ID cannot be empty", "EMPTY_ID"))
    ELSE ok(trim(value))

createId(value, typeName) ==
    IF IsBlank(value)
    THEN err(validationError("id", typeName \o " cannot be empty", "EMPTY_ID"))
    ELSE ok(value)

frameworkId(value) == createId(value, "FrameworkId")
controlId(value) == createId(value, "ControlId")
evidenceId(value) == createId(value, "EvidenceId")
riskId(value) == createId(value, "RiskId")
userId(value) == createId(value, "UserId")
integrationId(value) == createId(value, "IntegrationId")

\* branded identifiers the callers pass ready-made
UserIds == {<<"u">>}
ControlIds == {<<"c">>, <<"d">>, <<"e">>}
FrameworkIds == {<<"f">>}
IntegrationIds == {<<"i">>}

NoEntity == [kind |-> "None"]
NoCall == [op |-> "none"]

\* the sequence holding x when cond holds, else the empty sequence:
\* `if (cond) errors.push(x)`
PushIf(cond, x) == IF cond THEN <<x>> ELSE <<>>

Codes(errors) == [i \in 1..Len(errors) |-> errors[i].code]

(***************************************************************************)
(* Risk                                                                    *)
(***************************************************************************)
RiskLevel == <<"Low", "Medium", "High", "Critical">>
RiskLevels == {RiskLevel[i] : i \in 1..4}
RiskCategories == {"Operational", "Technical", "Compliance", "Financial"}

riskLevelValue(level) ==
    CASE level = "Low" -> 1
      [] level = "Medium" -> 2
      [] level = "High" -> 3
      [] level = "Critical" -> 4

\* calculateRiskScore with the bands cut with < instead of <=
calculateRiskScore_StrictBands(likelihood, impact) ==
    LET value == riskLevelValue(likelihood) * riskLevelValue(impact)
        label == IF value < 2 THEN "Low"
                 ELSE IF value < 6 THEN "Medium"
                 ELSE IF value < 12 THEN "High"
                 ELSE "Critical"
    IN [likelihood |-> likelihood, impact |-> impact,
        value |-> value, label |-> label]

\* calculateRiskScore adding the ordinals instead of multiplying them
calculateRiskScore_Sum(likelihood, impact) ==
    LET value == riskLevelValue(likelihood) + riskLevelValue(impact)
        label == IF value <= 2 THEN "Low"
                 ELSE IF value <= 6 THEN "Medium"
                 ELSE IF value <= 12 THEN "High"
                 ELSE "Critical"
    IN [likelihood |-> likelihood, impact |-> impact,
        value |-> value, label |-> label]

calculateRiskScore(likelihood, impact) ==
    LET value == riskLevelValue(likelihood) * riskLevelValue(impact)
        label == IF value <= 2 THEN "Low"
                 ELSE IF value <= 6 THEN "Medium"
                 ELSE IF value <= 12 THEN "High"
                 ELSE "Critical"
    IN [likelihood |-> likelihood, impact |-> impact,
        value |-> value, label |-> label]

Identified(identifiedAt) ==
    [type |-> "Identified", identifiedAt |-> identifiedAt]
Assessed(assessedAt, assessorId) ==
    [type |-> "Assessed", assessedAt |-> assessedAt, assessorId |-> assessorId]
Mitigated(mitigatedAt, controlIds) ==
    [type |-> "Mitigated", mitigatedAt |-> mitigatedAt, controlIds |-> controlIds]
Accepted(acceptedById, reason, expiresAt) ==
    [type |-> "Accepted", acceptedById |-> acceptedById, reason |-> reason,
     expiresAt |-> expiresAt]
Closed(closedAt, resolution) ==
    [type |-> "Closed", closedAt |-> closedAt, resolution |-> resolution]

\* createRisk stamping the status with the epoch instead of the clock
createRisk_EpochIdentified(input, clock) ==
    LET idResult == riskId(input.id)
        errors == PushIf(~idResult.ok, idResult.error)
                  \o PushIf(IsBlank(input.title),
                            validationError("title", "Risk title is required",
                                            "REQUIRED"))
        inherentScore == calculateRiskScore(input.likelihood, input.impact)
    IN IF Len(errors) > 0
       THEN err(errors)
       ELSE ok([id |-> idResult.value,
                title |-> input.title,
                description |-> input.description,
                category |-> input.category,
                inherentScore |-> inherentScore,
                residualScore |-> inherentScore,
                status |-> Identified(0),
                ownerId |-> input.ownerId])

createRisk(input, clock) ==
    LET idResult == riskId(input.id)
        errors == PushIf(~idResult.ok, idResult.error)
                  \o PushIf(IsBlank(input.title),
                            validationError("title", "Risk title is required",
                                            "REQUIRED"))
        inherentScore == calculateRiskScore(input.likelihood, input.impact)
    IN IF Len(errors) > 0
       THEN err(errors)
       ELSE ok([id |-> idResult.value,
                title |-> input.title,
                description |-> input.description,
                category |-> input.category,
                inherentScore |-> inherentScore,
                residualScore |-> inherentScore,
                status |-> Identified(clock),
                ownerId |-> input.ownerId])

\* updateRiskStatus without the Closed rule
updateRiskStatus_ClosedOpen(r, newStatus, clock) ==
    IF newStatus.type = "Accepted" /\ DateLE(newStatus.expiresAt, clock)
    THEN err(validationError("expiresAt",
                             "Acceptance expiration date must be in the future",
                             "INVALID_EXPIRATION"))
    ELSE ok([r EXCEPT !.status = newStatus])

\* updateRiskStatus comparing the expiry with < instead of <=
updateRiskStatus_StrictExpiry(r, newStatus, clock) ==
    IF r.status.type = "Closed"
    THEN err(validationError("status", "Cannot transition from Closed status",
                             "INVALID_TRANSITION"))
    ELSE IF newStatus.type = "Accepted" /\ DateLT(newStatus.expiresAt, clock)
    THEN err(validationError("expiresAt",
                             "Acceptance expiration date must be in the future",
                             "INVALID_EXPIRATION"))
    ELSE ok([r EXCEPT !.status = newStatus])

\* updateRiskStatus that also refuses to leave Accepted
updateRiskStatus_AcceptedSticky(r, newStatus, clock) ==
    IF r.status.type = "Closed" \/ r.status.type = "Accepted"
    THEN err(validationError("status", "Cannot transition from Closed status",
                             "INVALID_TRANSITION"))
    ELSE IF newStatus.type = "Accepted" /\ DateLE(newStatus.expiresAt, clock)
    THEN err(validationError("expiresAt",
                             "Acceptance expiration date must be in the future",
                             "INVALID_EXPIRATION"))
    ELSE ok([r EXCEPT !.status = newStatus])

\* updateRiskStatus testing the expiry rule before the Closed rule
updateRiskStatus_ExpiryFirst(r, newStatus, clock) ==
    IF newStatus.type = "Accepted" /\ DateLE(newStatus.expiresAt, clock)
    THEN err(validationError("expiresAt",
                             "Acceptance expiration date must be in the future",
                             "INVALID_EXPIRATION"))
    ELSE IF r.status.type = "Closed"
    THEN err(validationError("status", "Cannot transition from Closed status",
                             "INVALID_TRANSITION"))
    ELSE ok([r EXCEPT !.status = newStatus])

\* updateRiskStatus resetting the residual score with the status
updateRiskStatus_ResetsResidual(r, newStatus, clock) ==
    IF r.status.type = "Closed"
    THEN err(validationError("status", "Cannot transition from Closed status",
                             "INVALID_TRANSITION"))
    ELSE IF newStatus.type = "Accepted" /\ DateLE(newStatus.expiresAt, clock)
    THEN err(validationError("expiresAt",
                             "Acceptance expiration date must be in the future",
                             "INVALID_EXPIRATION"))
    ELSE ok([r EXCEPT !.status = newStatus, !.residualScore = r.inherentScore])

\* updateRiskStatus checking the expiry of the current Accepted status too
updateRiskStatus_LapsedAcceptance(r, newStatus, clock) ==
    IF r.status.type = "Closed"
    THEN err(validationError("status", "Cannot transition from Closed status",
                             "INVALID_TRANSITION"))
    ELSE IF \/ newStatus.type = "Accepted" /\ DateLE(newStatus.expiresAt, clock)
            \/ r.status.type = "Accepted" /\ DateLE(r.status.expiresAt, clock)
    THEN err(validationError("expiresAt",
                             "Acceptance expiration date must be in the future",
                             "INVALID_EXPIRATION"))
    ELSE ok([r EXCEPT !.status = newStatus])

updateRiskStatus(r, newStatus, clock) ==
    IF r.status.type = "Closed"
    THEN err(validationError("status", "Cannot transition from Closed status",
                             "INVALID_TRANSITION"))
    ELSE IF newStatus.type = "Accepted" /\ DateLE(newStatus.expiresAt, clock)
    THEN err(validationError("expiresAt",
                             "Acceptance expiration date must be in the future",
                             "INVALID_EXPIRATION"))
    ELSE ok([r EXCEPT !.status = newStatus])

\* updateResidualScore overwriting both scores
updateResidualScore_BothScores(r, likelihood, impact) ==
    [r EXCEPT !.residualScore = calculateRiskScore(likelihood, impact),
              !.inherentScore = calculateRiskScore(likelihood, impact)]

\* updateResidualScore leaving a Closed risk as it is
updateResidualScore_ClosedFrozen(r, likelihood, impact) ==
    IF r.status.type = "Closed"
    THEN r
    ELSE [r EXCEPT !.residualScore = calculateRiskScore(likelihood, impact)]

updateResidualScore(r, likelihood, impact) ==
    [r EXCEPT !.residualScore = calculateRiskScore(likelihood, impact)]

(***************************************************************************)
(* Risk life cycle: the inputs the callers draw from                       *)
(***************************************************************************)
LifecycleLevels == {RiskLevel[i] : i \in 1..MaxLevel}

Reasons == {"r1", "r2"}

\* the timestamps of the candidate statuses that no rule looks at
PayloadTimes == {0, 1}

RiskStatuses ==
    {Identified(t) : t \in PayloadTimes}
    \cup {Assessed(t, u) : t \in PayloadTimes, u \in UserIds}
    \cup {Mitigated(0, cs) : cs \in {<<>>, <<<<"c">>>>}}
    \cup {Accepted(u, "r1", e) : u \in UserIds, e \in Dates}
    \cup {Closed(t, "r1") : t \in PayloadTimes}

RiskInputs ==
    [id : ShortStrings, title : LifecycleTitles, description : {<<>>},
     category : {"Technical"}, likelihood : LifecycleLevels,
     impact : LifecycleLevels, ownerId : UserIds]

\* Each behaviour follows one entity from its factory call: the factories act
\* in the state where no call has been made yet (a failed factory call changes
\* no snapshot, so a retry reaches nothing new).
Call(op, pre, arg, at, res) ==
    [op |-> op, pre |-> pre, arg |-> arg, at |-> at, res |-> res]

\* the clock advances
Tick ==
    /\ now < MaxTime
    /\ now' = now + 1
    /\ UNCHANGED <<risk, control, framework, evidence, origin, last, heap,
                   held, calls, prev>>

CreateRiskFrom(inputs) ==
    /\ last = NoCall
    /\ \E input \in inputs :
         LET res == createRisk(input, now) IN
         /\ last' = Call("createRisk", risk, input, now, res)
         /\ risk' = IF res.ok THEN res.value ELSE risk
         /\ origin' = IF res.ok THEN [origin EXCEPT !.risk = input] ELSE origin
    /\ UNCHANGED <<now, control, framework, evidence, heap, held, calls, prev>>

CreateRisk == CreateRiskFrom(RiskInputs)

UpdateRiskStatus ==
    /\ risk # NoEntity
    /\ \E newStatus \in RiskStatuses :
         LET res == updateRiskStatus(risk, newStatus, now) IN
         /\ last' = Call("updateRiskStatus", risk, newStatus, now, res)
         /\ risk' = IF res.ok THEN res.value ELSE risk
    /\ UNCHANGED <<now, control, framework, evidence, origin, heap, held,
                   calls, prev>>

UpdateResidualScore ==
    /\ risk # NoEntity
    /\ \E likelihood \in LifecycleLevels, impact \in LifecycleLevels :
         LET res == updateResidualScore(risk, likelihood, impact) IN
         /\ last' = Call("updateResidualScore", risk,
                         [likelihood |-> likelihood, impact |-> impact],
                         now, res)
         /\ risk' = res
    /\ UNCHANGED <<now, control, framework, evidence, origin, heap, held,
                   calls, prev>>

(***************************************************************************)
(* Control                                                                 *)
(***************************************************************************)
\* percentage without the upper limit
percentage_NoUpperBound(value) ==
    IF value < 0
    THEN err(validationError("percentage", "Percentage must be between 0 and 100",
                             "INVALID_PERCENTAGE"))
    ELSE ok(value)

percentage(value) ==
    IF value < 0 \/ value > 100
    THEN err(validationError("percentage",
                             "Percentage must be between 0 and 100",
                             "INVALID_PERCENTAGE"))
    ELSE ok(value)

NotImplemented == [type |-> "NotImplemented"]
InProgress(progress) == [type |-> "InProgress", progress |-> progress]
Implemented(implementedAt) ==
    [type |-> "Implemented", implementedAt |-> implementedAt]
NotApplicable(reason) == [type |-> "NotApplicable", reason |-> reason]
Failed(reason, detectedAt) ==
    [type |-> "Failed", reason |-> reason, detectedAt |-> detectedAt]

\* createControl storing the trimmed code and title
createControl_Trimmed(input) ==
    LET idResult == controlId(input.id)
        errors == PushIf(~idResult.ok, idResult.error)
                  \o PushIf(IsBlank(input.code),
                            validationError("code", "Control code is required",
                                            "REQUIRED"))
                  \o PushIf(IsBlank(input.title),
                            validationError("title", "Control title is required",
                                            "REQUIRED"))
    IN IF Len(errors) > 0
       THEN err(errors)
       ELSE ok([id |-> idResult.value,
                frameworkId |-> input.frameworkId,
                code |-> trim(input.code),
                title |-> trim(input.title),
                description |-> input.description,
                status |-> NotImplemented,
                ownerId |-> input.ownerId])

createControl(input) ==
    LET idResult == controlId(input.id)
        errors == PushIf(~idResult.ok, idResult.error)
                  \o PushIf(IsBlank(input.code),
                            validationError("code", "Control code is required",
                                            "REQUIRED"))
                  \o PushIf(IsBlank(input.title),
                            validationError("title", "Control title is required",
                                            "REQUIRED"))
    IN IF Len(errors) > 0
       THEN err(errors)
       ELSE ok([id |-> idResult.value,
                frameworkId |-> input.frameworkId,
                code |-> input.code,
                title |-> input.title,
                description |-> input.description,
                status |-> NotImplemented,
                ownerId |-> input.ownerId])

\* updateControlStatus without the Failed -> Implemented rule
updateControlStatus_NoRule(c, newStatus) ==
    ok([c EXCEPT !.status = newStatus])

\* updateControlStatus refusing every transition out of Failed
updateControlStatus_FailedSticky(c, newStatus) ==
    IF c.status.type = "Failed"
    THEN err(validationError("status",
                             "Cannot transition directly from Failed to Implemented",
                             "INVALID_TRANSITION"))
    ELSE ok([c EXCEPT !.status = newStatus])

\* updateControlStatus also refusing NotImplemented -> Implemented
updateControlStatus_NoSkipToImplemented(c, newStatus) ==
    IF (c.status.type = "Failed" \/ c.status.type = "NotImplemented")
       /\ newStatus.type = "Implemented"
    THEN err(validationError("status",
                             "Cannot transition directly from Failed to Implemented",
                             "INVALID_TRANSITION"))
    ELSE ok([c EXCEPT !.status = newStatus])

updateControlStatus(c, newStatus) ==
    IF c.status.type = "Failed" /\ newStatus.type = "Implemented"
    THEN err(validationError("status",
                             "Cannot transition directly from Failed to Implemented",
                             "INVALID_TRANSITION"))
    ELSE ok([c EXCEPT !.status = newStatus])

\* the Percentage values the callers hold: the Ok results of percentage()
Percentages == {percentage(v).value : v \in {0, 50, 100}}

ControlStatuses ==
    {NotImplemented}
    \cup {InProgress(p) : p \in Percentages}
    \cup {Implemented(t) : t \in Times}
    \cup {NotApplicable(r) : r \in Reasons}
    \cup {Failed(r, t) : r \in Reasons, t \in Times}

ControlInputs(ids, codes, titles) ==
    [id : ids, frameworkId : FrameworkIds, code : codes, title : titles,
     description : {<<>>}, ownerId : UserIds]

CreateControlFrom(inputs) ==
    /\ last = NoCall
    /\ \E input \in inputs :
         LET res == createControl(input) IN
         /\ last' = Call("createControl", control, input, now, res)
         /\ control' = IF res.ok THEN res.value ELSE control
         /\ origin' = IF res.ok THEN [origin EXCEPT !.control = input]
                      ELSE origin
    /\ UNCHANGED <<now, risk, framework, evidence, heap, held, calls, prev>>

LifecycleControlInputs ==
    ControlInputs(ShortStrings, ShortStrings, LifecycleTitles)

CreateControl == CreateControlFrom(LifecycleControlInputs)

UpdateControlStatus ==
    /\ control # NoEntity
    /\ \E newStatus \in ControlStatuses :
         LET res == updateControlStatus(control, newStatus) IN
         /\ last' = Call("updateControlStatus", control, newStatus, now, res)
         /\ control' = IF res.ok THEN res.value ELSE control
    /\ prev' = last
    /\ UNCHANGED <<now, risk, framework, evidence, origin, heap, held, calls>>

(***************************************************************************)
(* Framework                                                               *)
(***************************************************************************)
FrameworkTypes == {"SOC2", "ISO27001", "HIPAA", "PCI_DSS", "GDPR"}
FrameworkStatuses == {"Draft", "Active", "Deprecated"}

Digits == {"0", "1", "2", "3", "4", "5", "6", "7", "8", "9"}

\* the longest prefix of s made of digits
RECURSIVE DigitRun(_)
DigitRun(s) ==
    IF s # <<>> /\ Head(s) \in Digits THEN 1 + DigitRun(Tail(s)) ELSE 0

Drop(s, n) == SubSeq(s, n + 1, Len(s))

\* /^\d+\.\d+(\.\d+)?$/.test(version)
versionPattern(version) ==
    LET n1 == DigitRun(version)
        r1 == Drop(version, n1)
        r2 == Drop(r1, 1)
        n2 == DigitRun(r2)
        r3 == Drop(r2, n2)
        r4 == Drop(r3, 1)
        n3 == DigitRun(r4)
    IN /\ n1 >= 1
       /\ r1 # <<>> /\ Head(r1) = "."
       /\ n2 >= 1
       /\ \/ r3 = <<>>
          \/ /\ Head(r3) = "."
             /\ n3 >= 1
             /\ Drop(r4, n3) = <<>>

\* createFramework returning after the first failed validation
createFramework_FirstErrorOnly(input) ==
    LET idResult == frameworkId(input.id)
        errors == PushIf(~idResult.ok, idResult.error)
                  \o PushIf(IsBlank(input.name),
                            validationError("name", "Framework name is required",
                                            "REQUIRED"))
                  \o PushIf(~versionPattern(input.version),
                            validationError("version",
                                "Version must be in semver format (e.g., 1.0 or 1.0.0)",
                                "INVALID_VERSION"))
    IN IF Len(errors) > 0
       THEN err(<<errors[1]>>)
       ELSE ok([id |-> idResult.value,
                type |-> input.type,
                name |-> input.name,
                version |-> input.version,
                description |-> input.description,
                status |-> "Draft",
                controlIds |-> <<>>])

createFramework(input) ==
    LET idResult == frameworkId(input.id)
        errors == PushIf(~idResult.ok, idResult.error)
                  \o PushIf(IsBlank(input.name),
                            validationError("name", "Framework name is required",
                                            "REQUIRED"))
                  \o PushIf(~versionPattern(input.version),
                            validationError("version",
                                "Version must be in semver format (e.g., 1.0 or 1.0.0)",
                                "INVALID_VERSION"))
    IN IF Len(errors) > 0
       THEN err(errors)
       ELSE ok([id |-> idResult.value,
                type |-> input.type,
                name |-> input.name,
                version |-> input.version,
                description |-> input.description,
                status |-> "Draft",
                controlIds |-> <<>>])

\* updateFrameworkStatus without the NO_CONTROLS rule
updateFrameworkStatus_NoControlsRule(f, newStatus) ==
    IF f.status = "Deprecated" /\ newStatus = "Active"
    THEN err(validationError("status",
                             "Cannot reactivate a deprecated framework",
                             "INVALID_TRANSITION"))
    ELSE ok([f EXCEPT !.status = newStatus])

\* updateFrameworkStatus checking its two rules in the other order
updateFrameworkStatus_RulesSwapped(f, newStatus) ==
    IF newStatus = "Active" /\ Len(f.controlIds) = 0
    THEN err(validationError("status",
                             "Cannot activate a framework without controls",
                             "NO_CONTROLS"))
    ELSE IF f.status = "Deprecated" /\ newStatus = "Active"
    THEN err(validationError("status",
                             "Cannot reactivate a deprecated framework",
                             "INVALID_TRANSITION"))
    ELSE ok([f EXCEPT !.status = newStatus])

\* updateFrameworkStatus whose rule 1 only applies when there are controls
updateFrameworkStatus_RuleOneNeedsControls(f, newStatus) ==
    IF f.status = "Deprecated" /\ newStatus = "Active" /\ Len(f.controlIds) > 0
    THEN err(validationError("status",
                             "Cannot reactivate a deprecated framework",
                             "INVALID_TRANSITION"))
    ELSE IF newStatus = "Active" /\ Len(f.controlIds) = 0
    THEN err(validationError("status",
                             "Cannot activate a framework without controls",
                             "NO_CONTROLS"))
    ELSE ok([f EXCEPT !.status = newStatus])

\* updateFrameworkStatus rebuilding the snapshot with the empty controlIds of
\* createFramework
updateFrameworkStatus_ClearsControls(f, newStatus) ==
    IF f.status = "Deprecated" /\ newStatus = "Active"
    THEN err(validationError("status",
                             "Cannot reactivate a deprecated framework",
                             "INVALID_TRANSITION"))
    ELSE IF newStatus = "Active" /\ Len(f.controlIds) = 0
    THEN err(validationError("status",
                             "Cannot activate a framework without controls",
                             "NO_CONTROLS"))
    ELSE ok([f EXCEPT !.status = newStatus, !.controlIds = <<>>])

\* updateFrameworkStatus refusing every transition out of Deprecated
updateFrameworkStatus_DeprecatedSticky(f, newStatus) ==
    IF f.status = "Deprecated" /\ newStatus # "Deprecated"
    THEN err(validationError("status",
                             "Cannot reactivate a deprecated framework",
                             "INVALID_TRANSITION"))
    ELSE IF newStatus = "Active" /\ Len(f.controlIds) = 0
    THEN err(validationError("status",
                             "Cannot activate a framework without controls",
                             "NO_CONTROLS"))
    ELSE ok([f EXCEPT !.status = newStatus])

updateFrameworkStatus(f, newStatus) ==
    IF f.status = "Deprecated" /\ newStatus = "Active"
    THEN err(validationError("status",
                             "Cannot reactivate a deprecated framework",
                             "INVALID_TRANSITION"))
    ELSE IF newStatus = "Active" /\ Len(f.controlIds) = 0
    THEN err(validationError("status",
                             "Cannot activate a framework without controls",
                             "NO_CONTROLS"))
    ELSE ok([f EXCEPT !.status = newStatus])

\* Array.prototype.includes
includes(array, x) == \E i \in 1..Len(array) : array[i] = x

\* addControlToFramework without the duplicate check
addControlToFramework_AlwaysAppend(f, cid) ==
    [f EXCEPT !.controlIds = Append(f.controlIds, cid)]

\* addControlToFramework putting the new control first
addControlToFramework_Prepend(f, cid) ==
    IF includes(f.controlIds, cid)
    THEN f
    ELSE [f EXCEPT !.controlIds = <<cid>> \o f.controlIds]

addControlToFramework(f, cid) ==
    IF includes(f.controlIds, cid)
    THEN f
    ELSE [f EXCEPT !.controlIds = Append(f.controlIds, cid)]

FrameworkInputs(ids, names, versions) ==
    [id : ids, type : {"SOC2"}, name : names, version : versions,
     description : {<<>>}]

CreateFrameworkFrom(inputs) ==
    /\ last = NoCall
    /\ \E input \in inputs :
         LET res == createFramework(input) IN
         /\ last' = Call("createFramework", framework, input, now, res)
         /\ framework' = IF res.ok THEN res.value ELSE framework
         /\ origin' = IF res.ok THEN [origin EXCEPT !.framework = input]
                      ELSE origin
    /\ UNCHANGED <<now, risk, control, evidence, heap, held, calls, prev>>

LifecycleVersions == {<<"1", ".", "0">>, <<"1">>}

LifecycleFrameworkInputs ==
    FrameworkInputs(ShortStrings, LifecycleTitles, LifecycleVersions)

CreateFramework == CreateFrameworkFrom(LifecycleFrameworkInputs)

UpdateFrameworkStatus ==
    /\ framework # NoEntity
    /\ \E newStatus \in FrameworkStatuses :
         LET res == updateFrameworkStatus(framework, newStatus) IN
         /\ last' = Call("updateFrameworkStatus", framework, newStatus, now, res)
         /\ framework' = IF res.ok THEN res.value ELSE framework
    /\ prev' = last
    /\ UNCHANGED <<now, risk, control, evidence, origin, heap, held, calls>>

AddControlToFramework ==
    /\ framework # NoEntity
    /\ \E cid \in ControlIds :
         LET res == addControlToFramework(framework, cid) IN
         /\ last' = Call("addControlToFramework", framework, cid, now, res)
         /\ framework' = res
    /\ prev' = last
    /\ UNCHANGED <<now, risk, control, evidence, origin, heap, held, calls>>

(***************************************************************************)
(* Evidence                                                                *)
(***************************************************************************)
Passed == [type |-> "Passed"]
CheckFailed(reason) == [type |-> "Failed", reason |-> reason]
Skipped(reason) == [type |-> "Skipped", reason |-> reason]

Document(fileUrl, fileType) ==
    [type |-> "Document", fileUrl |-> fileUrl, fileType |-> fileType]
Screenshot(imageUrl, capturedAt) ==
    [type |-> "Screenshot", imageUrl |-> imageUrl, capturedAt |-> capturedAt]
AutomatedCheck(integration, checkName, lastRunAt, result) ==
    [type |-> "AutomatedCheck", integrationId |-> integration,
     checkName |-> checkName, lastRunAt |-> lastRunAt, result |-> result]
ManualReview(reviewerId, reviewedAt, notes) ==
    [type |-> "ManualReview", reviewerId |-> reviewerId,
     reviewedAt |-> reviewedAt, notes |-> notes]

\* createEvidence comparing the expiration with < instead of <=
createEvidence_StrictExpiry(input, clock1, clock2) ==
    LET idResult == evidenceId(input.id)
        errors == PushIf(~idResult.ok, idResult.error)
                  \o PushIf(input.expiresAt # NullDate
                              /\ DateLT(input.expiresAt, clock1),
                            validationError("expiresAt",
                                "Expiration date must be in the future",
                                "INVALID_EXPIRATION"))
                  \o PushIf(DateGT(input.collectedAt, clock2),
                            validationError("collectedAt",
                                "Collection date cannot be in the future",
                                "INVALID_COLLECTION_DATE"))
    IN IF Len(errors) > 0
       THEN err(errors)
       ELSE ok([id |-> idResult.value,
                controlId |-> input.controlId,
                evidenceType |-> input.evidenceType,
                collectedAt |-> input.collectedAt,
                expiresAt |-> input.expiresAt,
                description |-> input.description])

\* clock1 is the `new Date()` of the expiration check, clock2 the one of the
\* collection-date check
createEvidence(input, clock1, clock2) ==
    LET idResult == evidenceId(input.id)
        errors == PushIf(~idResult.ok, idResult.error)
                  \o PushIf(input.expiresAt # NullDate
                              /\ DateLE(input.expiresAt, clock1),
                            validationError("expiresAt",
                                "Expiration date must be in the future",
                                "INVALID_EXPIRATION"))
                  \o PushIf(DateGT(input.collectedAt, clock2),
                            validationError("collectedAt",
                                "Collection date cannot be in the future",
                                "INVALID_COLLECTION_DATE"))
    IN IF Len(errors) > 0
       THEN err(errors)
       ELSE ok([id |-> idResult.value,
                controlId |-> input.controlId,
                evidenceType |-> input.evidenceType,
                collectedAt |-> input.collectedAt,
                expiresAt |-> input.expiresAt,
                description |-> input.description])

\* getEvidenceStatus looking at the check result before the expiration
getEvidenceStatus_ResultFirst(e, clock) ==
    IF e.evidenceType.type = "AutomatedCheck"
       /\ e.evidenceType.result.type = "Failed"
    THEN "Rejected"
    ELSE IF e.evidenceType.type = "AutomatedCheck"
            /\ e.evidenceType.result.type = "Skipped"
    THEN "Pending"
    ELSE IF e.expiresAt # NullDate /\ DateLT(e.expiresAt, clock)
    THEN "Expired"
    ELSE "Valid"

\* getEvidenceStatus expiring the evidence at the instant expiresAt
getEvidenceStatus_InclusiveExpiry(e, clock) ==
    IF e.expiresAt # NullDate /\ DateLE(e.expiresAt, clock)
    THEN "Expired"
    ELSE IF e.evidenceType.type = "AutomatedCheck"
            /\ e.evidenceType.result.type = "Failed"
    THEN "Rejected"
    ELSE IF e.evidenceType.type = "AutomatedCheck"
            /\ e.evidenceType.result.type = "Skipped"
    THEN "Pending"
    ELSE "Valid"

\* getEvidenceStatus with the expiry comparison turned round
getEvidenceStatus_InvertedExpiry(e, clock) ==
    IF e.expiresAt # NullDate /\ DateGT(e.expiresAt, clock)
    THEN "Expired"
    ELSE IF e.evidenceType.type = "AutomatedCheck"
            /\ e.evidenceType.result.type = "Failed"
    THEN "Rejected"
    ELSE IF e.evidenceType.type = "AutomatedCheck"
            /\ e.evidenceType.result.type = "Skipped"
    THEN "Pending"
    ELSE "Valid"

getEvidenceStatus(e, clock) ==
    IF e.expiresAt # NullDate /\ DateLT(e.expiresAt, clock)
    THEN "Expired"
    ELSE IF e.evidenceType.type = "AutomatedCheck"
            /\ e.evidenceType.result.type = "Failed"
    THEN "Rejected"
    ELSE IF e.evidenceType.type = "AutomatedCheck"
            /\ e.evidenceType.result.type = "Skipped"
    THEN "Pending"
    ELSE "Valid"

Urls == {<<"h">>}
CheckResults == {Passed, CheckFailed("r1"), Skipped("r1")}

EvidenceTypes ==
    {Document(u, "PDF") : u \in Urls}
    \cup {Screenshot(u, 0) : u \in Urls}
    \cup {AutomatedCheck(i, <<"a">>, 0, r) : i \in IntegrationIds,
                                            r \in CheckResults}
    \cup {ManualReview(u, 0, <<>>) : u \in UserIds}

EvidenceInputs(ids) ==
    [id : ids, controlId : {<<"c">>}, evidenceType : EvidenceTypes,
     collectedAt : Dates, expiresAt : NullableDates,
     description : {<<>>}]

\* the clock may advance between the two clock reads of createEvidence
CreateEvidenceFrom(inputs) ==
    /\ last = NoCall
    /\ \E input \in inputs, clock2 \in {now, now + 1} :
         LET res == createEvidence(input, now, clock2) IN
         /\ clock2 <= MaxTime
         /\ now' = clock2
         /\ last' = [op |-> "createEvidence", pre |-> evidence, arg |-> input,
                     at |-> now, at2 |-> clock2, res |-> res]
         /\ evidence' = IF res.ok THEN res.value ELSE evidence
         /\ origin' = IF res.ok THEN [origin EXCEPT !.evidence = input]
                      ELSE origin
    /\ UNCHANGED <<risk, control, framework, heap, held, calls, prev>>

LifecycleEvidenceInputs == EvidenceInputs(ShortStrings)

CreateEvidence == CreateEvidenceFrom(LifecycleEvidenceInputs)

GetEvidenceStatus ==
    /\ evidence # NoEntity
    /\ last' = Call("getEvidenceStatus", evidence, evidence, now,
                    getEvidenceStatus(evidence, now))
    /\ UNCHANGED <<now, risk, control, framework, evidence, origin, heap,
                   held, calls, prev>>

(***************************************************************************)
(* The factories alone, over all strings up to the bounds: one call per    *)
(* behaviour                                                               *)
(***************************************************************************)
VersionChars == {"1", ".", "a"}
Versions == StringsUpTo(VersionChars, MaxVersionLen)

AllFrameworkInputs == FrameworkInputs(Strings, Strings, Versions)

AllControlInputs == ControlInputs(Strings, Strings, Strings)

AllEvidenceInputs == EvidenceInputs(Strings)

AllRiskInputs ==
    [id : Strings, title : Strings, description : {<<>>},
     category : RiskCategories, likelihood : RiskLevels,
     impact : RiskLevels, ownerId : UserIds]

FactoryCreateFramework == CreateFrameworkFrom(AllFrameworkInputs)

FactoryCreateControl == CreateControlFrom(AllControlInputs)

FactoryCreateEvidence == CreateEvidenceFrom(AllEvidenceInputs)

FactoryCreateRisk == CreateRiskFrom(AllRiskInputs)

(***************************************************************************)
(* Result combinators.  A combinator returns its Result in `ret`; `invoked` *)
(* lists the arguments the supplied function was called with.              *)
(***************************************************************************)
map(result, fn) ==
    IF result.ok
    THEN [ret |-> ok(fn[result.value]), invoked |-> <<result.value>>]
    ELSE [ret |-> result, invoked |-> <<>>]

\* flatMap wrapping what the function returns, as map does
flatMap_Wrapping(result, fn) ==
    IF result.ok
    THEN [ret |-> ok(fn[result.value]), invoked |-> <<result.value>>]
    ELSE [ret |-> result, invoked |-> <<>>]

flatMap(result, fn) ==
    IF result.ok
    THEN [ret |-> fn[result.value], invoked |-> <<result.value>>]
    ELSE [ret |-> result, invoked |-> <<>>]

mapError(result, fn) ==
    IF ~result.ok
    THEN [ret |-> err(fn[result.error]), invoked |-> <<result.error>>]
    ELSE [ret |-> result, invoked |-> <<>>]

(***************************************************************************)
(* The value objects and combinators alone: one call per behaviour         *)
(***************************************************************************)
\* A handler is modelled by the value it returns; a match helper returns that
\* value and the call it made: the handler's name and the arguments passed.
Invoke(handlers, name, args) ==
    [ret |-> handlers[name],
     invoked |-> <<[handler |-> name, args |-> args]>>]

\* matchControlStatus sending Failed to the NotApplicable handler
matchControlStatus_FailedAsNotApplicable(status, handlers) ==
    CASE status.type = "NotImplemented" ->
           Invoke(handlers, "onNotImplemented", <<>>)
      [] status.type = "InProgress" ->
           Invoke(handlers, "onInProgress", <<status.progress>>)
      [] status.type = "Implemented" ->
           Invoke(handlers, "onImplemented", <<status.implementedAt>>)
      [] status.type = "NotApplicable" ->
           Invoke(handlers, "onNotApplicable", <<status.reason>>)
      [] status.type = "Failed" ->
           Invoke(handlers, "onNotApplicable", <<status.reason>>)
      [] OTHER -> [ret |-> status, invoked |-> <<>>]

matchControlStatus(status, handlers) ==
    CASE status.type = "NotImplemented" ->
           Invoke(handlers, "onNotImplemented", <<>>)
      [] status.type = "InProgress" ->
           Invoke(handlers, "onInProgress", <<status.progress>>)
      [] status.type = "Implemented" ->
           Invoke(handlers, "onImplemented", <<status.implementedAt>>)
      [] status.type = "NotApplicable" ->
           Invoke(handlers, "onNotApplicable", <<status.reason>>)
      [] status.type = "Failed" ->
           Invoke(handlers, "onFailed", <<status.reason, status.detectedAt>>)
      [] OTHER -> [ret |-> status, invoked |-> <<>>]

matchRiskStatus(status, handlers) ==
    CASE status.type = "Identified" ->
           Invoke(handlers, "onIdentified", <<status.identifiedAt>>)
      [] status.type = "Assessed" ->
           Invoke(handlers, "onAssessed",
                  <<status.assessedAt, status.assessorId>>)
      [] status.type = "Mitigated" ->
           Invoke(handlers, "onMitigated",
                  <<status.mitigatedAt, status.controlIds>>)
      [] status.type = "Accepted" ->
           Invoke(handlers, "onAccepted",
                  <<status.acceptedById, status.reason, status.expiresAt>>)
      [] status.type = "Closed" ->
           Invoke(handlers, "onClosed", <<status.closedAt, status.resolution>>)
      [] OTHER -> [ret |-> status, invoked |-> <<>>]

matchEvidenceType(evidenceType, handlers) ==
    CASE evidenceType.type = "Document" ->
           Invoke(handlers, "onDocument",
                  <<evidenceType.fileUrl, evidenceType.fileType>>)
      [] evidenceType.type = "Screenshot" ->
           Invoke(handlers, "onScreenshot",
                  <<evidenceType.imageUrl, evidenceType.capturedAt>>)
      [] evidenceType.type = "AutomatedCheck" ->
           Invoke(handlers, "onAutomatedCheck",
                  <<evidenceType.integrationId, evidenceType.checkName,
                    evidenceType.lastRunAt, evidenceType.result>>)
      [] evidenceType.type = "ManualReview" ->
           Invoke(handlers, "onManualReview",
                  <<evidenceType.reviewerId, evidenceType.reviewedAt,
                    evidenceType.notes>>)
      [] OTHER -> [ret |-> evidenceType, invoked |-> <<>>]

SampleValues == {0, 1}
SampleErrors == {"e1", "e2"}
SampleOks == {ok(v) : v \in SampleValues}
SampleErrs == {err(e) : e \in SampleErrors}
SampleResults == SampleOks \cup SampleErrs
MapFns == [SampleValues -> SampleValues]
FlatMapFns == [SampleValues -> SampleResults]
MapErrorFns == [SampleErrors -> SampleErrors]

ControlStatusHandlers ==
    [onNotImplemented : SampleValues, onInProgress : SampleValues,
     onImplemented : SampleValues, onNotApplicable : SampleValues,
     onFailed : SampleValues]

RiskStatusHandlers ==
    [onIdentified : SampleValues, onAssessed : SampleValues,
     onMitigated : SampleValues, onAccepted : SampleValues,
     onClosed : SampleValues]

EvidenceTypeHandlers ==
    [onDocument : SampleValues, onScreenshot : SampleValues,
     onAutomatedCheck : SampleValues, onManualReview : SampleValues]

PercentageInputs == (0 - MaxOver)..(100 + MaxOver)

IdConstructors ==
    {"frameworkId", "controlId", "evidenceId", "riskId", "userId",
     "integrationId"}

ApplyIdConstructor(ctor, value) ==
    CASE ctor = "frameworkId" -> frameworkId(value)
      [] ctor = "controlId" -> controlId(value)
      [] ctor = "evidenceId" -> evidenceId(value)
      [] ctor = "riskId" -> riskId(value)
      [] ctor = "userId" -> userId(value)
      [] ctor = "integrationId" -> integrationId(value)

ValueCall(op, arg, res) ==
    /\ last = NoCall
    /\ last' = Call(op, NoEntity, arg, now, res)
    /\ UNCHANGED <<now, risk, control, framework, evidence, origin, heap,
                   held, calls, prev>>

CalculateRiskScore ==
    \E likelihood \in RiskLevels, impact \in RiskLevels :
      ValueCall("calculateRiskScore",
                [likelihood |-> likelihood, impact |-> impact],
                calculateRiskScore(likelihood, impact))

PercentageCall ==
    \E value \in PercentageInputs :
      ValueCall("percentage", value, percentage(value))

IdConstructorCall ==
    \E ctor \in IdConstructors, value \in Strings :
      ValueCall(ctor, value, ApplyIdConstructor(ctor, value))

MapCall ==
    \E result \in SampleResults, fn \in MapFns :
      ValueCall("map", [result |-> result, fn |-> fn], map(result, fn))

FlatMapCall ==
    \E result \in SampleResults, fn \in FlatMapFns :
      ValueCall("flatMap", [result |-> result, fn |-> fn], flatMap(result, fn))

MapErrorCall ==
    \E result \in SampleResults, fn \in MapErrorFns :
      ValueCall("mapError", [result |-> result, fn |-> fn],
                mapError(result, fn))

(***************************************************************************)
(* Shared snapshots.  Objects live in a heap, a sequence indexed by        *)
(* address.  A Framework object holds the address of its controlIds array, *)
(* so the spread `{...framework, status}` copies the reference and the new *)
(* snapshot shares the array with the old one; a Control or a Risk object  *)
(* is one object whose nested values no operation writes to.  Two callers  *)
(* hold the same snapshot and call the transitions on it, or on the        *)
(* snapshot they got from their own last call, at one clock value.  The    *)
(* functions are synchronous and contain no await, so each call is one     *)
(* step.                                                                   *)
(***************************************************************************)
Callers == {"A", "B"}

NoHeld == [c \in Callers |-> 0]

\* the Framework at address f as its holder reads it: the controlIds array
\* is read through the reference
FrameworkAt(h, f) == [h[f] EXCEPT !.controlIds = h[h[f].controlIds]]

updateFrameworkStatusOnHeap(h, f, newStatus) ==
    IF h[f].status = "Deprecated" /\ newStatus = "Active"
    THEN [heap |-> h,
          ret |-> err(validationError("status",
                                      "Cannot reactivate a deprecated framework",
                                      "INVALID_TRANSITION"))]
    ELSE IF newStatus = "Active" /\ Len(h[h[f].controlIds]) = 0
    THEN [heap |-> h,
          ret |-> err(validationError("status",
                                      "Cannot activate a framework without controls",
                                      "NO_CONTROLS"))]
    ELSE [heap |-> Append(h, [h[f] EXCEPT !.status = newStatus]),
          ret |-> ok(Len(h) + 1)]

\* addControlToFramework pushing into the array of its argument
addControlToFrameworkOnHeap_PushInPlace(h, f, cid) ==
    IF includes(h[h[f].controlIds], cid)
    THEN [heap |-> h, ret |-> f]
    ELSE [heap |-> Append([h EXCEPT ![h[f].controlIds] = Append(@, cid)], h[f]),
          ret |-> Len(h) + 1]

\* `[...framework.controlIds, controlId]` is a new array, `{...framework,
\* controlIds}` a new object that refers to it
addControlToFrameworkOnHeap(h, f, cid) ==
    IF includes(h[h[f].controlIds], cid)
    THEN [heap |-> h, ret |-> f]
    ELSE [heap |-> h \o <<Append(h[h[f].controlIds], cid),
                          [h[f] EXCEPT !.controlIds = Len(h) + 1]>>,
          ret |-> Len(h) + 2]

\* the Ok value `{...control, status: newStatus}` is a new object
updateControlStatusOnHeap(h, c, newStatus) ==
    LET res == updateControlStatus(h[c], newStatus)
    IN IF res.ok
       THEN [heap |-> Append(h, res.value), ret |-> ok(Len(h) + 1)]
       ELSE [heap |-> h, ret |-> res]

\* updateRiskStatus assigning the status of its argument
updateRiskStatusOnHeap_AssignInPlace(h, r, newStatus, clock) ==
    LET res == updateRiskStatus(h[r], newStatus, clock)
    IN IF res.ok
       THEN [heap |-> [h EXCEPT ![r] = res.value], ret |-> ok(r)]
       ELSE [heap |-> h, ret |-> res]

\* the Ok value `{...risk, status: newStatus}` is a new object
updateRiskStatusOnHeap(h, r, newStatus, clock) ==
    LET res == updateRiskStatus(h[r], newStatus, clock)
    IN IF res.ok
       THEN [heap |-> Append(h, res.value), ret |-> ok(Len(h) + 1)]
       ELSE [heap |-> h, ret |-> res]

\* `{...risk, residualScore: calculateRiskScore(...)}` is a new object
updateResidualScoreOnHeap(h, r, likelihood, impact) ==
    [heap |-> Append(h, updateResidualScore(h[r], likelihood, impact)),
     ret |-> Len(h) + 1]

\* what the caller reads through a Result whose value is an address
ViewResult(h, ret) == IF ret.ok THEN ok(h[ret.value]) ELSE ret

ViewFrameworkResult(h, ret) ==
    IF ret.ok THEN ok(FrameworkAt(h, ret.value)) ELSE ret

\* the snapshots the callers share, made by the factories and transitions
DraftFramework ==
    createFramework([id |-> <<"f">>, type |-> "SOC2", name |-> <<"a">>,
                     version |-> <<"1", ".", "0">>,
                     description |-> <<>>]).value

StaffedFramework == addControlToFramework(DraftFramework, <<"c">>)

DeprecatedFramework == updateFrameworkStatus(StaffedFramework, "Deprecated").value

SharedFrameworks == {DraftFramework, StaffedFramework, DeprecatedFramework}

NewControl ==
    createControl([id |-> <<"c">>, frameworkId |-> <<"f">>, code |-> <<"a">>,
                   title |-> <<"a">>, description |-> <<>>,
                   ownerId |-> <<"u">>]).value

FailedControl == updateControlStatus(NewControl, Failed("r1", 0)).value

SharedControls == {NewControl, FailedControl}

NewRisk ==
    createRisk([id |-> <<"a">>, title |-> <<"a">>, description |-> <<>>,
                category |-> "Technical", likelihood |-> "Low",
                impact |-> "Medium", ownerId |-> <<"u">>], 0).value

AcceptedRisk == updateRiskStatus(NewRisk, Accepted(<<"u">>, "r1", 1), 0).value

SharedRisks == {NewRisk, AcceptedRisk}

\* the candidates the callers pass
SharedControlIds == {<<"c">>, <<"d">>}

SharedControlStatuses ==
    {NotImplemented, InProgress(percentage(50).value), Implemented(0),
     NotApplicable("r1"), Failed("r1", 0)}

SharedRiskStatuses ==
    {Assessed(0, <<"u">>), Mitigated(0, <<>>), Accepted(<<"u">>, "r1", 1),
     Closed(0, "r1")}

SharedScores ==
    {[likelihood |-> "Low", impact |-> "High"],
     [likelihood |-> "High", impact |-> "High"]}

\* the heap that holds one snapshot and nothing else
HeapOf(f, c, r) ==
    IF f # NoEntity
    THEN <<f.controlIds, [f EXCEPT !.controlIds = 1]>>
    ELSE IF c # NoEntity THEN <<c>> ELSE <<r>>

\* the address of the shared snapshot
Snapshot == Len(HeapOf(framework, control, risk))

\* the snapshots a caller can pass: the shared one and its own latest
Targets(caller) == {Snapshot, held[caller]}

SharedCall(op, caller, target, pre, arg, res) ==
    [op |-> op, pre |-> pre, arg |-> arg, at |-> now, res |-> res,
     caller |-> caller, target |-> target]

SharedUpdateFrameworkStatus ==
    /\ framework # NoEntity
    /\ calls < MaxCalls
    /\ \E caller \in Callers :
         \E target \in Targets(caller), newStatus \in FrameworkStatuses :
           LET out == updateFrameworkStatusOnHeap(heap, target, newStatus) IN
           /\ heap' = out.heap
           /\ held' = IF out.ret.ok
                      THEN [held EXCEPT ![caller] = out.ret.value]
                      ELSE held
           /\ last' = SharedCall("updateFrameworkStatus", caller, target,
                                 FrameworkAt(heap, target), newStatus,
                                 ViewFrameworkResult(out.heap, out.ret))
    /\ calls' = calls + 1
    /\ UNCHANGED <<now, risk, control, framework, evidence, origin, prev>>

SharedAddControlToFramework ==
    /\ framework # NoEntity
    /\ calls < MaxCalls
    /\ \E caller \in Callers :
         \E target \in Targets(caller), cid \in SharedControlIds :
           LET out == addControlToFrameworkOnHeap(heap, target, cid) IN
           /\ heap' = out.heap
           /\ held' = [held EXCEPT ![caller] = out.ret]
           /\ last' = SharedCall("addControlToFramework", caller, target,
                                 FrameworkAt(heap, target), cid,
                                 FrameworkAt(out.heap, out.ret))
    /\ calls' = calls + 1
    /\ UNCHANGED <<now, risk, control, framework, evidence, origin, prev>>

SharedUpdateControlStatus ==
    /\ control # NoEntity
    /\ calls < MaxCalls
    /\ \E caller \in Callers :
         \E target \in Targets(caller), newStatus \in SharedControlStatuses :
           LET out == updateControlStatusOnHeap(heap, target, newStatus) IN
           /\ heap' = out.heap
           /\ held' = IF out.ret.ok
                      THEN [held EXCEPT ![caller] = out.ret.value]
                      ELSE held
           /\ last' = SharedCall("updateControlStatus", caller, target,
                                 heap[target], newStatus,
                                 ViewResult(out.heap, out.ret))
    /\ calls' = calls + 1
    /\ UNCHANGED <<now, risk, control, framework, evidence, origin, prev>>

SharedUpdateRiskStatus ==
    /\ risk # NoEntity
    /\ calls < MaxCalls
    /\ \E caller \in Callers :
         \E target \in Targets(caller), newStatus \in SharedRiskStatuses :
           LET out == updateRiskStatusOnHeap(heap, target, newStatus, now) IN
           /\ heap' = out.heap
           /\ held' = IF out.ret.ok
                      THEN [held EXCEPT ![caller] = out.ret.value]
                      ELSE held
           /\ last' = SharedCall("updateRiskStatus", caller, target,
                                 heap[target], newStatus,
                                 ViewResult(out.heap, out.ret))
    /\ calls' = calls + 1
    /\ UNCHANGED <<now, risk, control, framework, evidence, origin, prev>>

SharedUpdateResidualScore ==
    /\ risk # NoEntity
    /\ calls < MaxCalls
    /\ \E caller \in Callers :
         \E target \in Targets(caller), score \in SharedScores :
           LET out == updateResidualScoreOnHeap(heap, target, score.likelihood,
                                                score.impact) IN
           /\ heap' = out.heap
           /\ held' = [held EXCEPT ![caller] = out.ret]
           /\ last' = SharedCall("updateResidualScore", caller, target,
                                 heap[target], score, out.heap[out.ret])
    /\ calls' = calls + 1
    /\ UNCHANGED <<now, risk, control, framework, evidence, origin, prev>>

NoOrigin ==
    [risk |-> NoEntity, control |-> NoEntity, framework |-> NoEntity,
     evidence |-> NoEntity]

Init ==
    /\ now = 0
    /\ risk = NoEntity
    /\ control = NoEntity
    /\ framework = NoEntity
    /\ evidence = NoEntity
    /\ origin = NoOrigin
    /\ last = NoCall
    /\ heap = <<>>
    /\ held = NoHeld
    /\ calls = 0
    /\ prev = NoCall

NextRisk == Tick \/ CreateRisk \/ UpdateRiskStatus \/ UpdateResidualScore

SpecRisk == Init /\ [][NextRisk]_vars

NextControl == CreateControl \/ UpdateControlStatus

SpecControl == Init /\ [][NextControl]_vars

NextFramework == CreateFramework \/ UpdateFrameworkStatus \/ AddControlToFramework

SpecFramework == Init /\ [][NextFramework]_vars

NextEvidence == Tick \/ CreateEvidence \/ GetEvidenceStatus

SpecEvidence == Init /\ [][NextEvidence]_vars

InitFactory ==
    /\ now \in Times
    /\ risk = NoEntity
    /\ control = NoEntity
    /\ framework = NoEntity
    /\ evidence = NoEntity
    /\ origin = NoOrigin
    /\ last = NoCall
    /\ heap = <<>>
    /\ held = NoHeld
    /\ calls = 0
    /\ prev = NoCall

NextFactory ==
    \/ FactoryCreateFramework
    \/ FactoryCreateControl
    \/ FactoryCreateEvidence
    \/ FactoryCreateRisk

SpecFactory == InitFactory /\ [][NextFactory]_vars

MatchControlStatus ==
    \E status \in ControlStatuses, handlers \in ControlStatusHandlers :
      ValueCall("matchControlStatus",
                [value |-> status, handlers |-> handlers],
                matchControlStatus(status, handlers))

MatchRiskStatus ==
    \E status \in RiskStatuses, handlers \in RiskStatusHandlers :
      ValueCall("matchRiskStatus",
                [value |-> status, handlers |-> handlers],
                matchRiskStatus(status, handlers))

MatchEvidenceType ==
    \E evidenceType \in EvidenceTypes, handlers \in EvidenceTypeHandlers :
      ValueCall("matchEvidenceType",
                [value |-> evidenceType, handlers |-> handlers],
                matchEvidenceType(evidenceType, handlers))

NextValues ==
    \/ CalculateRiskScore
    \/ PercentageCall
    \/ IdConstructorCall
    \/ MapCall
    \/ FlatMapCall
    \/ MapErrorCall
    \/ MatchControlStatus
    \/ MatchRiskStatus
    \/ MatchEvidenceType

SpecValues == Init /\ [][NextValues]_vars

\* The four life cycles, each entity created from an id that is empty, blank,
\* plain, or has white space around it.
IdentityIds == {<<>>, <<" ">>, <<"a">>, <<" ", "a">>, <<"a", " ">>}

IdentityNames == {<<"a">>}

IdentityVersions == {<<"1", ".", "0">>}

IdentityRiskInputs ==
    [id : IdentityIds, title : IdentityNames, description : {<<>>},
     category : {"Technical"}, likelihood : {"Low"}, impact : {"Medium"},
     ownerId : UserIds]

IdentityControlInputs ==
    ControlInputs(IdentityIds, IdentityNames, IdentityNames)

IdentityFrameworkInputs ==
    FrameworkInputs(IdentityIds, IdentityNames, IdentityVersions)

IdentityEvidenceInputs == EvidenceInputs(IdentityIds)

IdentityCreateRisk == CreateRiskFrom(IdentityRiskInputs)

IdentityCreateControl == CreateControlFrom(IdentityControlInputs)

IdentityCreateFramework == CreateFrameworkFrom(IdentityFrameworkInputs)

IdentityCreateEvidence == CreateEvidenceFrom(IdentityEvidenceInputs)

NextIdentity ==
    \/ Tick
    \/ IdentityCreateRisk
    \/ UpdateRiskStatus
    \/ UpdateResidualScore
    \/ IdentityCreateControl
    \/ UpdateControlStatus
    \/ IdentityCreateFramework
    \/ UpdateFrameworkStatus
    \/ AddControlToFramework
    \/ IdentityCreateEvidence
    \/ GetEvidenceStatus

SpecIdentity == Init /\ [][NextIdentity]_vars

\* Two callers hold one snapshot of one entity, at one clock value.
InitShared ==
    /\ now \in PayloadTimes
    /\ \/ framework \in SharedFrameworks /\ control = NoEntity /\ risk = NoEntity
       \/ framework = NoEntity /\ control \in SharedControls /\ risk = NoEntity
       \/ framework = NoEntity /\ control = NoEntity /\ risk \in SharedRisks
    /\ evidence = NoEntity
    /\ origin = NoOrigin
    /\ last = NoCall
    /\ heap = HeapOf(framework, control, risk)
    /\ held = [c \in Callers |-> Snapshot]
    /\ calls = 0
    /\ prev = NoCall

NextShared ==
    \/ SharedUpdateFrameworkStatus
    \/ SharedAddControlToFramework
    \/ SharedUpdateControlStatus
    \/ SharedUpdateRiskStatus
    \/ SharedUpdateResidualScore

SpecShared == InitShared /\ [][NextShared]_vars

(***************************************************************************)
(* The Go port: identifier constructors, NewControl, NewEvidence and       *)
(* Risk.WithStatus, called beside their TypeScript counterparts on the     *)
(* same input at the same clock value.                                     *)
(***************************************************************************)
NewFrameworkID(value) ==
    IF value = <<>>
    THEN err(validationError("id", "FrameworkID cannot be empty", "EMPTY_ID"))
    ELSE ok(value)

NewControlID(value) ==
    IF value = <<>>
    THEN err(validationError("id", "ControlID cannot be empty", "EMPTY_ID"))
    ELSE ok(value)

NewEvidenceID(value) ==
    IF value = <<>>
    THEN err(validationError("id", "EvidenceID cannot be empty", "EMPTY_ID"))
    ELSE ok(value)

NewRiskID(value) ==
    IF value = <<>>
    THEN err(validationError("id", "RiskID cannot be empty", "EMPTY_ID"))
    ELSE ok(value)

NewUserID(value) ==
    IF value = <<>>
    THEN err(validationError("id", "UserID cannot be empty", "EMPTY_ID"))
    ELSE ok(value)

NewIntegrationID(value) ==
    IF value = <<>>
    THEN err(validationError("id", "IntegrationID cannot be empty", "EMPTY_ID"))
    ELSE ok(value)

\* the Go constructor that stands beside each TypeScript one
ApplyGoIdConstructor(ctor, value) ==
    CASE ctor = "frameworkId" -> NewFrameworkID(value)
      [] ctor = "controlId" -> NewControlID(value)
      [] ctor = "evidenceId" -> NewEvidenceID(value)
      [] ctor = "riskId" -> NewRiskID(value)
      [] ctor = "userId" -> NewUserID(value)
      [] ctor = "integrationId" -> NewIntegrationID(value)

\* domain.NewControl of the Go port
GoNewControl(input) ==
    LET idResult == NewControlID(input.id)
        errors == PushIf(~idResult.ok, idResult.error)
                  \o PushIf(input.code = <<>>,
                            validationError("code", "Control code is required",
                                            "REQUIRED"))
                  \o PushIf(input.title = <<>>,
                            validationError("title", "Control title is required",
                                            "REQUIRED"))
    IN IF Len(errors) > 0
       THEN err(errors)
       ELSE ok([id |-> idResult.value,
                frameworkId |-> input.frameworkId,
                code |-> input.code,
                title |-> input.title,
                description |-> input.description,
                status |-> NotImplemented,
                ownerId |-> input.ownerId])

\* NewEvidence reads the clock once, into now; Before and After are the
\* strict comparisons of time.Time
NewEvidence(input, clock) ==
    LET idResult == NewEvidenceID(input.id)
        errors == PushIf(~idResult.ok, idResult.error)
                  \o PushIf(input.expiresAt # NullDate
                              /\ input.expiresAt < clock,
                            validationError("expiresAt",
                                            "Expiration date must be in the future",
                                            "INVALID_EXPIRATION"))
                  \o PushIf(input.collectedAt > clock,
                            validationError("collectedAt",
                                            "Collection date cannot be in the future",
                                            "INVALID_COLLECTION_DATE"))
    IN IF Len(errors) > 0
       THEN err(errors)
       ELSE ok([id |-> idResult.value,
                controlId |-> input.controlId,
                evidenceType |-> input.evidenceType,
                collectedAt |-> input.collectedAt,
                expiresAt |-> input.expiresAt,
                description |-> input.description])

\* Risk.WithStatus of the Go port
WithStatus(r, newStatus, clock) ==
    IF r.status.type = "Closed"
    THEN err(validationError("status", "Cannot transition from Closed status",
                             "INVALID_TRANSITION"))
    ELSE IF newStatus.type = "Accepted" /\ newStatus.expiresAt < clock
    THEN err(validationError("expiresAt",
                             "Acceptance expiration date must be in the future",
                             "INVALID_EXPIRATION"))
    ELSE ok([r EXCEPT !.status = newStatus])

\* A call of both ports: res is the TypeScript result, go the Go result.
PortCall(op, pre, arg, res, go) ==
    /\ last = NoCall
    /\ last' = [op |-> op, pre |-> pre, arg |-> arg, at |-> now, res |-> res,
                go |-> go]
    /\ UNCHANGED <<now, risk, control, framework, evidence, origin, heap,
                   held, calls, prev>>

\* the ids of the evidence inputs: empty or plain
PortEvidenceIds == {<<>>, <<"a">>}

PortEvidenceInputs == EvidenceInputs(PortEvidenceIds)

\* a Go time.Time always has a time value; ExpiresAt may be nil
PortValidEvidenceInputs ==
    {input \in PortEvidenceInputs :
       input.collectedAt # InvalidDate /\ input.expiresAt # InvalidDate}

PortControlInputs == ControlInputs(Strings, Strings, Strings)

ClosedRisk == updateRiskStatus(NewRisk, Closed(0, "r1"), 0).value

PortRisks == {NewRisk, AcceptedRisk, ClosedRisk}

PortRiskStatuses ==
    {s \in RiskStatuses : s.type = "Accepted" => s.expiresAt # InvalidDate}

PortIdConstructor ==
    \E ctor \in IdConstructors, value \in Strings :
      PortCall(ctor, NoEntity, value, ApplyIdConstructor(ctor, value),
               ApplyGoIdConstructor(ctor, value))

PortNewControl ==
    \E input \in PortControlInputs :
      PortCall("createControl", NoEntity, input, createControl(input),
               GoNewControl(input))

PortNewEvidence ==
    \E input \in PortValidEvidenceInputs :
      PortCall("createEvidence", NoEntity, input,
               createEvidence(input, now, now), NewEvidence(input, now))

PortWithStatus ==
    \E r \in PortRisks, newStatus \in PortRiskStatuses :
      PortCall("updateRiskStatus", r, newStatus,
               updateRiskStatus(r, newStatus, now),
               WithStatus(r, newStatus, now))

NextPorts ==
    \/ PortIdConstructor
    \/ PortNewControl
    \/ PortNewEvidence
    \/ PortWithStatus

SpecPorts == InitFactory /\ [][NextPorts]_vars

(***************************************************************************)
(* Properties                                                              *)
(***************************************************************************)
IsErr(res, code) == ~res.ok /\ res.error.code = code

HasCode(res, code) ==
    ~res.ok /\ \E i \in 1..Len(res.error) : res.error[i].code = code

\* C1: Closed is absorbing for Risk.  Every updateRiskStatus call on a Risk
\* whose status is Closed returns Err INVALID_TRANSITION, whatever the
\* candidate, and from a state where the risk is Closed every step leaves
\* its status Closed.
C1_ClosedAbsorbing ==
    /\ [](last.op = "updateRiskStatus" /\ last.pre.status.type = "Closed"
            => IsErr(last.res, "INVALID_TRANSITION"))
    /\ [][risk # NoEntity /\ risk.status.type = "Closed"
            => risk'.status.type = "Closed"]_vars

C1_Witness ==
    /\ last.op = "updateRiskStatus"
    /\ last.pre.status.type = "Closed"
    /\ last.arg.type = "Accepted"
    /\ DateGT(last.arg.expiresAt, last.at)
    /\ ~last.res.ok
    /\ risk.status.type = "Closed"

\* C2: updateControlStatus from Failed to Implemented returns Err
\* INVALID_TRANSITION and the control keeps its Failed status, with the same
\* reason and detectedAt.
C2_FailedToImplementedRejected ==
    last.op = "updateControlStatus"
        /\ last.pre.status.type = "Failed"
        /\ last.arg.type = "Implemented"
    => /\ IsErr(last.res, "INVALID_TRANSITION")
       /\ control.status.type = "Failed"
       /\ control.status.reason = last.pre.status.reason
       /\ control.status.detectedAt = last.pre.status.detectedAt

C2_Witness ==
    /\ last.op = "updateControlStatus"
    /\ last.pre.status = Failed("r2", 1)
    /\ last.arg.type = "Implemented"
    /\ ~last.res.ok
    /\ control.status = Failed("r2", 1)

\* C3: activating a Draft or Active framework that has no controls returns
\* Err NO_CONTROLS; once a control has been added to it the same call returns
\* Ok with status Active.
C3_ActivationNeedsControl ==
    /\ last.op = "updateFrameworkStatus" /\ last.arg = "Active"
          /\ last.pre.status # "Deprecated"
       => IF Len(last.pre.controlIds) = 0
          THEN IsErr(last.res, "NO_CONTROLS")
          ELSE last.res.ok /\ last.res.value.status = "Active"
    /\ framework # NoEntity
       => \A st \in FrameworkStatuses, X \in ControlIds :
            st # "Deprecated" =>
            LET f == [framework EXCEPT !.status = st, !.controlIds = <<>>]
                r1 == updateFrameworkStatus(f, "Active")
                r2 == updateFrameworkStatus(addControlToFramework(f, X), "Active")
            IN /\ IsErr(r1, "NO_CONTROLS")
               /\ r2.ok
               /\ r2.value.status = "Active"
               /\ r2.value.controlIds = <<X>>

C3_Witness ==
    /\ last.op = "updateFrameworkStatus"
    /\ last.arg = "Active"
    /\ last.pre.status = "Draft"
    /\ Len(last.pre.controlIds) = 1
    /\ last.res.ok
    /\ framework.status = "Active"

\* C4: updateFrameworkStatus from Deprecated to Active returns Err
\* INVALID_TRANSITION whatever the controlIds; every other (current, new) pair
\* is accepted, provided a new status of Active comes with non-empty
\* controlIds, and the result has the new status.
C4_FrameworkTransitions ==
    last.op = "updateFrameworkStatus"
    => IF last.pre.status = "Deprecated" /\ last.arg = "Active"
       THEN IsErr(last.res, "INVALID_TRANSITION")
       ELSE (last.arg = "Active" => Len(last.pre.controlIds) > 0)
            => last.res.ok /\ last.res.value.status = last.arg

C4_Witness ==
    /\ last.op = "updateFrameworkStatus"
    /\ last.pre.status = "Deprecated"
    /\ last.arg = "Active"
    /\ Len(last.pre.controlIds) = 0
    /\ IsErr(last.res, "INVALID_TRANSITION")

\* C5: for a Risk that is not Closed, updateRiskStatus with an Accepted
\* candidate returns Err INVALID_EXPIRATION exactly when the candidate's
\* expiresAt <= the current time, and Ok with status = the candidate when
\* expiresAt > the current time.
C5_AcceptedExpiry ==
    last.op = "updateRiskStatus"
        /\ last.pre.status.type # "Closed"
        /\ last.arg.type = "Accepted"
    => /\ IsErr(last.res, "INVALID_EXPIRATION")
            <=> DateLE(last.arg.expiresAt, last.at)
       /\ ~last.res.ok => IsErr(last.res, "INVALID_EXPIRATION")
       /\ DateGT(last.arg.expiresAt, last.at)
            => last.res.ok /\ last.res.value.status = last.arg

C5_Witness ==
    /\ last.op = "updateRiskStatus"
    /\ last.pre.status.type = "Mitigated"
    /\ last.arg.type = "Accepted"
    /\ last.arg.expiresAt = last.at
    /\ last.at > 0
    /\ IsErr(last.res, "INVALID_EXPIRATION")

\* C6: with a valid id, createEvidence fails with INVALID_EXPIRATION iff
\* expiresAt is present and <= the clock (equal fails), fails with
\* INVALID_COLLECTION_DATE iff collectedAt > the clock (equal passes), and
\* succeeds iff neither holds; an absent expiresAt never gives
\* INVALID_EXPIRATION.
C6_EvidenceBoundaries ==
    last.op = "createEvidence" /\ ~IsBlank(last.arg.id)
    => /\ HasCode(last.res, "INVALID_EXPIRATION")
            <=> (last.arg.expiresAt # NullDate
                   /\ DateLE(last.arg.expiresAt, last.at))
       /\ HasCode(last.res, "INVALID_COLLECTION_DATE")
            <=> DateGT(last.arg.collectedAt, last.at2)
       /\ last.res.ok
            <=> (~HasCode(last.res, "INVALID_EXPIRATION")
                   /\ ~HasCode(last.res, "INVALID_COLLECTION_DATE"))
       /\ last.arg.expiresAt = NullDate
            => ~HasCode(last.res, "INVALID_EXPIRATION")

C6_Witness ==
    /\ last.op = "createEvidence"
    /\ ~IsBlank(last.arg.id)
    /\ last.arg.expiresAt = last.at
    /\ last.arg.collectedAt = last.at2
    /\ ~last.res.ok
    /\ Codes(last.res.error) = <<"INVALID_EXPIRATION">>

\* C7: getEvidenceStatus is Expired if expiresAt is present and < the clock;
\* otherwise, for an AutomatedCheck, Rejected / Pending / Valid for a Failed /
\* Skipped / Passed result; otherwise Valid.  Expiration wins over the check
\* result.
EvidenceStatusReference(e, clock) ==
    CASE e.expiresAt # NullDate /\ DateLT(e.expiresAt, clock) -> "Expired"
      [] OTHER ->
           CASE \/ e.evidenceType.type = "Document"
                \/ e.evidenceType.type = "Screenshot"
                \/ e.evidenceType.type = "ManualReview" -> "Valid"
             [] e.evidenceType.type = "AutomatedCheck" ->
                  CASE e.evidenceType.result.type = "Failed" -> "Rejected"
                    [] e.evidenceType.result.type = "Skipped" -> "Pending"
                    [] e.evidenceType.result.type = "Passed" -> "Valid"

C7_EvidenceStatus ==
    last.op = "getEvidenceStatus"
    => last.res = EvidenceStatusReference(last.arg, last.at)

C7_Witness ==
    /\ last.op = "getEvidenceStatus"
    /\ last.arg.evidenceType.type = "AutomatedCheck"
    /\ last.arg.evidenceType.result.type = "Failed"
    /\ last.arg.expiresAt # NullDate
    /\ DateLT(last.arg.expiresAt, last.at)
    /\ last.res = "Expired"

\* C8: every factory evaluates all of its field rules: the Err list holds
\* exactly one error per violated rule, in the order the rules are checked,
\* the factory returns Ok iff no rule is violated, and an Err list is never
\* empty.
AllSpaces(s) == \A i \in 1..Len(s) : s[i] = " "

AllDigits(s, from, to) ==
    from <= to /\ \A i \in from..to : s[i] \in Digits

\* digits "." digits, optionally followed by "." digits
IsVersion(v) ==
    \E p \in 1..Len(v) :
      /\ v[p] = "."
      /\ AllDigits(v, 1, p - 1)
      /\ \/ AllDigits(v, p + 1, Len(v))
         \/ \E q \in (p + 1)..Len(v) :
              /\ v[q] = "."
              /\ AllDigits(v, p + 1, q - 1)
              /\ AllDigits(v, q + 1, Len(v))

Violated(cond, field, code) == IF cond THEN <<<<field, code>>>> ELSE <<>>

ExpectedErrors(call) ==
    CASE call.op = "createFramework" ->
           Violated(AllSpaces(call.arg.id), "id", "EMPTY_ID")
           \o Violated(AllSpaces(call.arg.name), "name", "REQUIRED")
           \o Violated(~IsVersion(call.arg.version), "version", "INVALID_VERSION")
      [] call.op = "createControl" ->
           Violated(AllSpaces(call.arg.id), "id", "EMPTY_ID")
           \o Violated(AllSpaces(call.arg.code), "code", "REQUIRED")
           \o Violated(AllSpaces(call.arg.title), "title", "REQUIRED")
      [] call.op = "createEvidence" ->
           Violated(AllSpaces(call.arg.id), "id", "EMPTY_ID")
           \o Violated(call.arg.expiresAt \in Times /\ call.arg.expiresAt <= call.at,
                       "expiresAt", "INVALID_EXPIRATION")
           \o Violated(call.arg.collectedAt \in Times
                         /\ call.arg.collectedAt > call.at2,
                       "collectedAt", "INVALID_COLLECTION_DATE")
      [] call.op = "createRisk" ->
           Violated(AllSpaces(call.arg.id), "id", "EMPTY_ID")
           \o Violated(AllSpaces(call.arg.title), "title", "REQUIRED")

IsFactory(op) ==
    \/ op = "createFramework"
    \/ op = "createControl"
    \/ op = "createEvidence"
    \/ op = "createRisk"

C8_FactoriesCollectAllErrors ==
    IsFactory(last.op)
    => /\ last.res.ok <=> ExpectedErrors(last) = <<>>
       /\ ~last.res.ok
          => /\ Len(last.res.error) > 0
             /\ [i \in 1..Len(last.res.error) |->
                   <<last.res.error[i].field, last.res.error[i].code>>]
                = ExpectedErrors(last)

C8_Witness ==
    /\ last.op = "createFramework"
    /\ ~last.res.ok
    /\ Codes(last.res.error) = <<"EMPTY_ID", "REQUIRED", "INVALID_VERSION">>

\* C9: addControlToFramework returns the framework unchanged when the
\* ControlId is already in controlIds and appends it at the end otherwise;
\* updateFrameworkStatus keeps controlIds; so controlIds never holds a
\* ControlId twice.
NoDuplicates(seq) ==
    \A i \in 1..Len(seq), j \in 1..Len(seq) : seq[i] = seq[j] => i = j

C9_ControlIdsDuplicateFree ==
    /\ last.op = "addControlToFramework"
       => IF \E i \in 1..Len(last.pre.controlIds) : last.pre.controlIds[i] = last.arg
          THEN last.res = last.pre
          ELSE /\ last.res.controlIds = last.pre.controlIds \o <<last.arg>>
               /\ last.res.status = last.pre.status
               /\ last.res.id = last.pre.id
    /\ last.op = "updateFrameworkStatus" /\ last.res.ok
       => last.res.value.controlIds = last.pre.controlIds
    /\ framework # NoEntity => NoDuplicates(framework.controlIds)

C9_Witness ==
    /\ last.op = "addControlToFramework"
    /\ Len(last.pre.controlIds) = 2
    /\ last.pre.controlIds[1] = last.arg
    /\ framework = last.pre

\* C10: inherentScore is fixed at creation: in every reachable Risk it is
\* calculateRiskScore of the creation inputs; updateResidualScore returns the
\* risk with residualScore replaced and every other field as it was.
C10_InherentScoreFixed ==
    /\ risk # NoEntity
       => risk.inherentScore
            = calculateRiskScore(origin.risk.likelihood, origin.risk.impact)
    /\ last.op = "updateResidualScore"
       => /\ last.res.residualScore
               = calculateRiskScore(last.arg.likelihood, last.arg.impact)
          /\ \A field \in DOMAIN last.pre \ {"residualScore"} :
               last.res[field] = last.pre[field]
          /\ DOMAIN last.res = DOMAIN last.pre

C10_Witness ==
    /\ last.op = "updateResidualScore"
    /\ risk.status.type = "Accepted"
    /\ risk.residualScore.value = 4
    /\ risk.inherentScore.value = 1

\* C11: for all 16 (likelihood, impact) pairs over Low=1, Medium=2, High=3,
\* Critical=4, calculateRiskScore returns value = ordinal * ordinal, label =
\* Low if value <= 2, Medium if <= 6, High if <= 12, else Critical, and echoes
\* likelihood and impact.
LevelOrdinal == [Low |-> 1, Medium |-> 2, High |-> 3, Critical |-> 4]

ScoreBand(value) ==
    CASE value <= 2 -> "Low"
      [] value > 2 /\ value <= 6 -> "Medium"
      [] value > 6 /\ value <= 12 -> "High"
      [] value > 12 -> "Critical"

C11_RiskScoreTable ==
    last.op = "calculateRiskScore"
    => /\ last.res.value
            = LevelOrdinal[last.arg.likelihood] * LevelOrdinal[last.arg.impact]
       /\ last.res.label = ScoreBand(last.res.value)
       /\ last.res.likelihood = last.arg.likelihood
       /\ last.res.impact = last.arg.impact

C11_Witness ==
    /\ last.op = "calculateRiskScore"
    /\ last.arg.likelihood = "Medium"
    /\ last.arg.impact = "High"
    /\ last.res.value = 6
    /\ last.res.label = "Medium"

\* C12: ControlStatus is a free graph with one forbidden edge: for every pair
\* (current variant, candidate variant) other than (Failed, Implemented),
\* updateControlStatus returns Ok with status equal to the candidate.
C12_ControlFreeGraph ==
    last.op = "updateControlStatus"
        /\ ~(last.pre.status.type = "Failed" /\ last.arg.type = "Implemented")
    => last.res.ok /\ last.res.value.status = last.arg

C12_Witness ==
    /\ last.op = "updateControlStatus"
    /\ last.pre.status.type = "Failed"
    /\ last.arg.type = "NotApplicable"
    /\ last.res.ok
    /\ control.status = last.arg

\* C13: for a Risk that is not Closed, updateRiskStatus to Identified,
\* Assessed, Mitigated or Closed returns Ok with status equal to the
\* candidate; the only rejections are rule 1 (current Closed) and rule 2
\* (Accepted candidate with expiresAt <= now).
C13_RiskFreeGraph ==
    last.op = "updateRiskStatus"
    => /\ last.pre.status.type # "Closed" /\ last.arg.type # "Accepted"
          => last.res.ok /\ last.res.value.status = last.arg
       /\ ~last.res.ok
          => \/ last.pre.status.type = "Closed"
                  /\ IsErr(last.res, "INVALID_TRANSITION")
             \/ last.arg.type = "Accepted"
                  /\ DateLE(last.arg.expiresAt, last.at)
                  /\ IsErr(last.res, "INVALID_EXPIRATION")

C13_Witness ==
    /\ last.op = "updateRiskStatus"
    /\ last.pre.status.type = "Accepted"
    /\ last.arg.type = "Mitigated"
    /\ last.res.ok
    /\ risk.status = last.arg

\* C14: a successful createControl yields status NotImplemented; a successful
\* createFramework yields status Draft and empty controlIds; a successful
\* createRisk yields status Identified with identifiedAt = the clock,
\* inherentScore = calculateRiskScore(likelihood, impact) and residualScore
\* equal to inherentScore.
C14_InitialStates ==
    /\ last.op = "createControl" /\ last.res.ok
       => last.res.value.status = [type |-> "NotImplemented"]
    /\ last.op = "createFramework" /\ last.res.ok
       => last.res.value.status = "Draft" /\ last.res.value.controlIds = <<>>
    /\ last.op = "createRisk" /\ last.res.ok
       => /\ last.res.value.status
               = [type |-> "Identified", identifiedAt |-> last.at]
          /\ last.res.value.inherentScore
               = calculateRiskScore(last.arg.likelihood, last.arg.impact)
          /\ last.res.value.residualScore = last.res.value.inherentScore

C14_Witness ==
    /\ last.op = "createRisk"
    /\ last.res.ok
    /\ last.at = 2
    /\ last.res.value.status.identifiedAt = 2
    /\ last.res.value.residualScore.value = 12

\* C15: when a factory succeeds, every non-generated field of the entity
\* equals the input value exactly (strings are stored untrimmed).
SameFields(entity, input, fields) ==
    \A field \in fields : entity[field] = input[field]

ControlInputFields ==
    {"id", "frameworkId", "code", "title", "description", "ownerId"}
FrameworkInputFields == {"id", "type", "name", "version", "description"}
EvidenceInputFields ==
    {"id", "controlId", "evidenceType", "collectedAt", "expiresAt",
     "description"}
RiskInputFields == {"id", "title", "description", "category", "ownerId"}

C15_FactoryRoundTrip ==
    /\ last.op = "createControl" /\ last.res.ok
       => SameFields(last.res.value, last.arg, ControlInputFields)
    /\ last.op = "createFramework" /\ last.res.ok
       => SameFields(last.res.value, last.arg, FrameworkInputFields)
    /\ last.op = "createEvidence" /\ last.res.ok
       => SameFields(last.res.value, last.arg, EvidenceInputFields)
    /\ last.op = "createRisk" /\ last.res.ok
       => SameFields(last.res.value, last.arg, RiskInputFields)

C15_Witness ==
    /\ last.op = "createControl"
    /\ last.res.ok
    /\ last.arg.id = <<"a", " ">>
    /\ last.arg.code = <<" ", "a">>
    /\ last.res.value.code = <<" ", "a">>

\* C16: for all six identifier constructors, empty or whitespace-only input
\* fails with EMPTY_ID, and every other string ("non-empty" read as: with a
\* character that is not whitespace) succeeds, returning the input unchanged.
C16_IdentifierConstructors ==
    last.op \in IdConstructors
    => IF AllSpaces(last.arg)
       THEN IsErr(last.res, "EMPTY_ID")
       ELSE last.res.ok /\ last.res.value = last.arg

C16_Witness ==
    /\ last.op = "integrationId"
    /\ last.arg = <<" ", " ">>
    /\ IsErr(last.res, "EMPTY_ID")

\* C17: for every integer v of a range that goes below 0 and above 100,
\* percentage(v) is Ok iff 0 <= v <= 100 and otherwise Err
\* INVALID_PERCENTAGE; wrapping the value of an Ok result again gives an equal
\* Ok result.
C17_PercentageRange ==
    last.op = "percentage"
    => /\ last.res.ok <=> (0 <= last.arg /\ last.arg <= 100)
       /\ ~last.res.ok => IsErr(last.res, "INVALID_PERCENTAGE")
       /\ last.res.ok
          => last.res.value = last.arg /\ percentage(last.res.value) = last.res

C17_Witness ==
    /\ last.op = "percentage"
    /\ last.arg = 100
    /\ last.res.ok

\* C18: map and flatMap applied to an Err return that same Err and never call
\* the function; applied to Ok(v), map returns Ok(fn(v)) and flatMap returns
\* fn(v); mapError leaves an Ok unchanged and never calls its function on Ok.
C18_CombinatorsShortCircuit ==
    /\ last.op = "map" \/ last.op = "flatMap"
       => IF last.arg.result.ok
          THEN last.res.ret
                 = IF last.op = "map"
                   THEN [ok |-> TRUE,
                         value |-> last.arg.fn[last.arg.result.value]]
                   ELSE last.arg.fn[last.arg.result.value]
          ELSE last.res.ret = last.arg.result /\ last.res.invoked = <<>>
    /\ last.op = "mapError" /\ last.arg.result.ok
       => last.res.ret = last.arg.result /\ last.res.invoked = <<>>

C18_Witness ==
    /\ last.op = "flatMap"
    /\ last.arg.result = [ok |-> TRUE, value |-> 1]
    /\ last.res.ret = [ok |-> FALSE, error |-> "e2"]
    /\ last.res.invoked = <<1>>

IsTransition(op) ==
    \/ op = "updateControlStatus"
    \/ op = "updateRiskStatus"
    \/ op = "updateFrameworkStatus"
    \/ op = "updateResidualScore"
    \/ op = "addControlToFramework"

\* the snapshot at an address as its holder reads it
SnapshotAt(h, a) == IF framework # NoEntity THEN FrameworkAt(h, a) ELSE h[a]

\* what the holder of the shared snapshot read before any call
HeldBefore ==
    IF framework # NoEntity
    THEN framework
    ELSE IF control # NoEntity THEN control ELSE risk

\* C19: transitions never change their argument: after updateControlStatus,
\* updateRiskStatus, updateFrameworkStatus, updateResidualScore or
\* addControlToFramework returns (Ok or Err), every field of the snapshot
\* passed, the contents of Framework.controlIds included, equals its value
\* before the call, and a holder of the prior snapshot reads what it read
\* before.
C19_ArgumentUnchanged ==
    IsTransition(last.op)
    => /\ SnapshotAt(heap, last.target) = last.pre
       /\ SnapshotAt(heap, Snapshot) = HeldBefore

\* the argument shares its controlIds array with the shared snapshot and the
\* call returned a snapshot with one more control
C19_Witness ==
    /\ last.op = "addControlToFramework"
    /\ last.target # Snapshot
    /\ heap[last.target].controlIds = heap[Snapshot].controlIds
    /\ last.res.controlIds = Append(last.pre.controlIds, last.arg)
    /\ FrameworkAt(heap, Snapshot).controlIds = framework.controlIds

\* the result of the last call when it is the only call made on the shared
\* snapshot
AloneResult ==
    LET alone == HeapOf(framework, control, risk) IN
    CASE last.op = "updateFrameworkStatus" ->
           LET out == updateFrameworkStatusOnHeap(alone, Snapshot, last.arg)
           IN ViewFrameworkResult(out.heap, out.ret)
      [] last.op = "addControlToFramework" ->
           LET out == addControlToFrameworkOnHeap(alone, Snapshot, last.arg)
           IN FrameworkAt(out.heap, out.ret)
      [] last.op = "updateControlStatus" ->
           LET out == updateControlStatusOnHeap(alone, Snapshot, last.arg)
           IN ViewResult(out.heap, out.ret)
      [] last.op = "updateRiskStatus" ->
           LET out == updateRiskStatusOnHeap(alone, Snapshot, last.arg, last.at)
           IN ViewResult(out.heap, out.ret)
      [] last.op = "updateResidualScore" ->
           LET out == updateResidualScoreOnHeap(alone, Snapshot,
                                                last.arg.likelihood,
                                                last.arg.impact)
           IN out.heap[out.ret]

\* C20: when two callers apply transitions to the same snapshot in any
\* interleaving at a fixed clock value, each call returns exactly the result
\* it returns when run alone on that snapshot.
C20_IndependentOfInterleaving ==
    IsTransition(last.op) /\ last.target = Snapshot
    => last.res = AloneResult

\* B's call on the shared snapshot comes after A got a new snapshot from it
C20_Witness ==
    /\ last.op = "updateRiskStatus"
    /\ last.caller = "B"
    /\ last.target = Snapshot
    /\ held["A"] # Snapshot
    /\ heap[held["A"]].status.type = "Closed"
    /\ last.res.ok
    /\ last.res.value.status.type = "Mitigated"

\* C21: a Risk transition that violates both rules reports only rule 1:
\* updateRiskStatus on a Closed risk with an Accepted candidate whose
\* expiresAt <= now returns the single error INVALID_TRANSITION on field
\* status, never INVALID_EXPIRATION.
C21_RiskRuleOneFirst ==
    last.op = "updateRiskStatus"
        /\ last.pre.status.type = "Closed"
        /\ last.arg.type = "Accepted"
        /\ DateLE(last.arg.expiresAt, last.at)
    => /\ ~last.res.ok
       /\ last.res.error.field = "status"
       /\ last.res.error.code = "INVALID_TRANSITION"
       /\ risk = last.pre

C21_Witness ==
    /\ last.op = "updateRiskStatus"
    /\ last.pre.status.type = "Closed"
    /\ last.arg.type = "Accepted"
    /\ last.arg.expiresAt = last.at
    /\ last.at > 0
    /\ last.res.error.code = "INVALID_TRANSITION"

\* C22: a Framework transition that violates both rules reports only rule 1:
\* updateFrameworkStatus(Active) on a Deprecated framework with empty
\* controlIds returns the single error INVALID_TRANSITION, never NO_CONTROLS.
C22_FrameworkRuleOneFirst ==
    last.op = "updateFrameworkStatus"
        /\ last.pre.status = "Deprecated"
        /\ last.pre.controlIds = <<>>
        /\ last.arg = "Active"
    => /\ ~last.res.ok
       /\ last.res.error.field = "status"
       /\ last.res.error.code = "INVALID_TRANSITION"
       /\ framework = last.pre

C22_Witness ==
    /\ last.op = "updateFrameworkStatus"
    /\ last.pre.status = "Deprecated"
    /\ last.pre.controlIds = <<>>
    /\ last.arg = "Active"
    /\ last.res.error.code = "INVALID_TRANSITION"
    /\ framework.status = "Deprecated"

\* C24: getEvidenceStatus uses a strict comparison: an evidence whose
\* expiresAt equals the current time is not Expired, and an evidence with no
\* expiresAt is never Expired at any time.
C24_ExpiryIsStrict ==
    last.op = "getEvidenceStatus"
    => /\ last.pre.expiresAt = last.at => last.res # "Expired"
       /\ last.pre.expiresAt = NullDate => last.res # "Expired"

C24_Witness ==
    /\ last.op = "getEvidenceStatus"
    /\ last.pre.expiresAt = last.at
    /\ last.pre.evidenceType.type = "Document"
    /\ last.res = "Valid"

\* C25: a RiskScore value above 12 (label Critical) occurs only when both
\* likelihood and impact are High or Critical; over the 4x4 table the only
\* values produced are 1, 2, 3, 4, 6, 8, 9, 12 and 16; calculateRiskScore is
\* symmetric in value and label for (a, b) and (b, a).
TableValues == {1, 2, 3, 4, 6, 8, 9, 12, 16}

HighOrCritical(level) == level = "High" \/ level = "Critical"

C25_ScoreTableShape ==
    last.op = "calculateRiskScore"
    => LET swapped == calculateRiskScore(last.arg.impact, last.arg.likelihood)
       IN /\ last.res.value \in TableValues
          /\ last.res.value > 12 \/ last.res.label = "Critical"
             => HighOrCritical(last.arg.likelihood)
                /\ HighOrCritical(last.arg.impact)
          /\ swapped.value = last.res.value
          /\ swapped.label = last.res.label

C25_Witness ==
    /\ last.op = "calculateRiskScore"
    /\ last.arg.likelihood = "Critical"
    /\ last.arg.impact = "Critical"
    /\ last.res.value = 16
    /\ last.res.label = "Critical"

\* C28: Active implies controls: in every Framework reachable from a
\* successful createFramework by any sequence of addControlToFramework and
\* updateFrameworkStatus calls, status = Active implies controlIds is
\* non-empty.
C28_ActiveImpliesControls ==
    framework # NoEntity /\ framework.status = "Active"
    => Len(framework.controlIds) > 0

C28_Witness ==
    /\ framework # NoEntity
    /\ framework.status = "Active"
    /\ Len(framework.controlIds) = 2
    /\ last.op = "updateFrameworkStatus"
    /\ last.pre.status = "Active"

\* C23: status transitions change the status field only: on Ok,
\* updateControlStatus leaves id, frameworkId, code, title, description and
\* ownerId unchanged; updateRiskStatus leaves id, title, description,
\* category, inherentScore, residualScore and ownerId unchanged;
\* updateFrameworkStatus leaves id, type, name, version, description and
\* controlIds unchanged.
ControlKeptFields ==
    {"id", "frameworkId", "code", "title", "description", "ownerId"}
RiskKeptFields ==
    {"id", "title", "description", "category", "inherentScore",
     "residualScore", "ownerId"}
FrameworkKeptFields ==
    {"id", "type", "name", "version", "description", "controlIds"}

C23_StatusOnly ==
    /\ last.op = "updateControlStatus" /\ last.res.ok
       => SameFields(last.res.value, last.pre, ControlKeptFields)
    /\ last.op = "updateRiskStatus" /\ last.res.ok
       => SameFields(last.res.value, last.pre, RiskKeptFields)
    /\ last.op = "updateFrameworkStatus" /\ last.res.ok
       => SameFields(last.res.value, last.pre, FrameworkKeptFields)

\* the risk passed has a residual score of its own, and keeps it
C23_Witness ==
    /\ last.op = "updateRiskStatus"
    /\ last.res.ok
    /\ last.pre.residualScore # last.pre.inherentScore
    /\ last.res.value.residualScore = last.pre.residualScore
    /\ last.res.value.status # last.pre.status

\* C26: the match helpers are total and exclusive: for every ControlStatus,
\* RiskStatus and EvidenceType variant, matchControlStatus / matchRiskStatus /
\* matchEvidenceType invokes exactly one handler, the one named for the
\* value's variant, passes it that variant's payload fields, and returns its
\* result; no variant reaches the default branch.
HandlerFor ==
    [NotImplemented |-> "onNotImplemented", InProgress |-> "onInProgress",
     Implemented |-> "onImplemented", NotApplicable |-> "onNotApplicable",
     Failed |-> "onFailed",
     Identified |-> "onIdentified", Assessed |-> "onAssessed",
     Mitigated |-> "onMitigated", Accepted |-> "onAccepted",
     Closed |-> "onClosed",
     Document |-> "onDocument", Screenshot |-> "onScreenshot",
     AutomatedCheck |-> "onAutomatedCheck", ManualReview |-> "onManualReview"]

PayloadFields ==
    [NotImplemented |-> <<>>, InProgress |-> <<"progress">>,
     Implemented |-> <<"implementedAt">>, NotApplicable |-> <<"reason">>,
     Failed |-> <<"reason", "detectedAt">>,
     Identified |-> <<"identifiedAt">>,
     Assessed |-> <<"assessedAt", "assessorId">>,
     Mitigated |-> <<"mitigatedAt", "controlIds">>,
     Accepted |-> <<"acceptedById", "reason", "expiresAt">>,
     Closed |-> <<"closedAt", "resolution">>,
     Document |-> <<"fileUrl", "fileType">>,
     Screenshot |-> <<"imageUrl", "capturedAt">>,
     AutomatedCheck |-> <<"integrationId", "checkName", "lastRunAt", "result">>,
     ManualReview |-> <<"reviewerId", "reviewedAt", "notes">>]

Payload(variant) ==
    [i \in 1..Len(PayloadFields[variant.type]) |->
        variant[PayloadFields[variant.type][i]]]

IsMatch(op) ==
    \/ op = "matchControlStatus"
    \/ op = "matchRiskStatus"
    \/ op = "matchEvidenceType"

C26_MatchTotalExclusive ==
    IsMatch(last.op)
    => /\ Len(last.res.invoked) = 1
       /\ last.res.invoked[1].handler = HandlerFor[last.arg.value.type]
       /\ last.res.invoked[1].args = Payload(last.arg.value)
       /\ last.res.ret = last.arg.handlers[HandlerFor[last.arg.value.type]]

C26_Witness ==
    /\ last.op = "matchControlStatus"
    /\ last.arg.value.type = "Failed"
    /\ last.arg.handlers.onFailed = 1
    /\ last.arg.handlers.onNotApplicable = 0
    /\ last.res.ret = 1
    /\ last.res.invoked[1].args = <<"r2", 1>>

\* C29: the Deprecated-to-Active prohibition covers the direct edge only:
\* starting from a Deprecated framework with non-empty controlIds, the
\* two-call sequence updateFrameworkStatus(Draft) then
\* updateFrameworkStatus(Active) succeeds, so a state with status Active is
\* reachable from a state with status Deprecated.
DeprecatedThenDraftThenActive ==
    /\ prev.op = "updateFrameworkStatus"
    /\ prev.pre.status = "Deprecated"
    /\ Len(prev.pre.controlIds) > 0
    /\ prev.arg = "Draft"
    /\ last.op = "updateFrameworkStatus"
    /\ last.arg = "Active"

C29_ReactivationThroughDraft ==
    DeprecatedThenDraftThenActive
    => /\ prev.res.ok
       /\ prev.res.value.status = "Draft"
       /\ last.pre = prev.res.value
       /\ last.res.ok
       /\ framework = last.res.value
       /\ framework.status = "Active"
       /\ framework.controlIds = prev.pre.controlIds

C29_Witness ==
    /\ DeprecatedThenDraftThenActive
    /\ framework.status = "Active"
    /\ framework.id = prev.pre.id

\* C30: the Failed-to-Implemented prohibition covers the direct edge only:
\* from a Control in Failed status, for each intermediate variant X in
\* {NotImplemented, InProgress, NotApplicable}, the two-call sequence
\* updateControlStatus(X) then updateControlStatus(Implemented) succeeds, so
\* Implemented is reachable from Failed in two steps.
FailedThenXThenImplemented ==
    /\ prev.op = "updateControlStatus"
    /\ prev.pre.status.type = "Failed"
    /\ \/ prev.arg.type = "NotImplemented"
       \/ prev.arg.type = "InProgress"
       \/ prev.arg.type = "NotApplicable"
    /\ last.op = "updateControlStatus"
    /\ last.arg.type = "Implemented"

C30_ImplementedThroughIntermediate ==
    FailedThenXThenImplemented
    => /\ prev.res.ok
       /\ prev.res.value.status = prev.arg
       /\ last.pre = prev.res.value
       /\ last.res.ok
       /\ control = last.res.value
       /\ control.status = last.arg

C30_Witness ==
    /\ FailedThenXThenImplemented
    /\ prev.arg.type = "NotImplemented"
    /\ control.status.type = "Implemented"
    /\ control.id = prev.pre.id

\* C27: identifier invariant over reachable states: in every Control,
\* Framework, Evidence and Risk reachable from a successful factory call by
\* any sequence of transitions, the entity's own id is a string that is
\* non-empty after trimming, and it is equal to the id given at creation (no
\* transition changes it).
KeepsId(entity, input) ==
    entity # NoEntity
    => /\ Len(entity.id) > 0
       /\ ~AllSpaces(entity.id)
       /\ entity.id = input.id

C27_IdentifierInvariant ==
    /\ KeepsId(risk, origin.risk)
    /\ KeepsId(control, origin.control)
    /\ KeepsId(framework, origin.framework)
    /\ KeepsId(evidence, origin.evidence)

\* a risk made from an id with white space around it, two transitions later
C27_Witness ==
    /\ risk # NoEntity
    /\ origin.risk.id = <<" ", "a">>
    /\ risk.id = <<" ", "a">>
    /\ risk.status.type = "Mitigated"
    /\ risk.residualScore # risk.inherentScore
    /\ last.op = "updateRiskStatus"

\* C31: every Evidence returned by a successful createEvidence with a
\* present expiresAt satisfies collectedAt < expiresAt, also when the clock
\* advances between the two clock reads that createEvidence makes (one for
\* the expiration check, one for the collection-date check).  Stated for
\* dates with a time value.
C31_CollectedBeforeExpiry ==
    last.op = "createEvidence"
        /\ last.res.ok
        /\ last.res.value.expiresAt # NullDate
        /\ last.res.value.expiresAt # InvalidDate
        /\ last.res.value.collectedAt # InvalidDate
    => last.res.value.collectedAt < last.res.value.expiresAt

LapsedAccepted(r, clock) ==
    r.status.type = "Accepted" /\ DateLE(r.status.expiresAt, clock)

C33_AcceptanceDoesNotLapse ==
    /\ [](last.op = "updateResidualScore" /\ LapsedAccepted(last.pre, last.at)
            => last.res.status = last.pre.status /\ risk = last.res)
    /\ [](last.op = "updateRiskStatus" /\ LapsedAccepted(last.pre, last.at)
            /\ ~(last.arg.type = "Accepted"
                   /\ DateLE(last.arg.expiresAt, last.at))
            => last.res.ok /\ last.res.value.status = last.arg)
    /\ [][risk # NoEntity /\ risk.status.type = "Accepted"
            /\ risk'.status # risk.status
            => /\ last'.op = "updateRiskStatus"
               /\ last'.res.ok
               /\ risk'.status = last'.arg]_vars

C33_Witness ==
    /\ last.op = "updateRiskStatus"
    /\ last.pre.status.type = "Accepted"
    /\ last.pre.status.expiresAt = 1
    /\ last.at = 2
    /\ last.arg.type = "Closed"
    /\ last.res.ok

\* C34: Closed blocks status changes only: updateResidualScore applied to a
\* Risk whose status is Closed succeeds, leaves the status Closed with the
\* same closedAt and resolution, and replaces residualScore with
\* calculateRiskScore(likelihood, impact).
C34_ClosedKeepsScoring ==
    last.op = "updateResidualScore" /\ last.pre.status.type = "Closed"
    => /\ risk = last.res
       /\ last.res.status.type = "Closed"
       /\ last.res.status.closedAt = last.pre.status.closedAt
       /\ last.res.status.resolution = last.pre.status.resolution
       /\ last.res.residualScore.likelihood = last.arg.likelihood
       /\ last.res.residualScore.impact = last.arg.impact
       /\ last.res.residualScore.value
            = LevelOrdinal[last.arg.likelihood] * LevelOrdinal[last.arg.impact]
       /\ last.res.residualScore.label
            = ScoreBand(last.res.residualScore.value)

C34_Witness ==
    /\ last.op = "updateResidualScore"
    /\ last.pre.status.type = "Closed"
    /\ last.res.residualScore # last.pre.residualScore
    /\ risk.status.type = "Closed"

\* C35: controlIds only grows: for every step addControlToFramework or
\* updateFrameworkStatus, in any framework status, the controlIds of the
\* resulting framework has the previous controlIds as a prefix; no sequence
\* of operations removes or reorders a ControlId, and addControlToFramework
\* never changes the status.
IsPrefix(s, t) == Len(s) <= Len(t) /\ SubSeq(t, 1, Len(s)) = s

C35_ControlIdsOnlyGrows ==
    /\ [](last.op = "addControlToFramework"
            => /\ IsPrefix(last.pre.controlIds, last.res.controlIds)
               /\ last.res.status = last.pre.status)
    /\ [](last.op = "updateFrameworkStatus" /\ last.res.ok
            => IsPrefix(last.pre.controlIds, last.res.value.controlIds))
    /\ [][framework # NoEntity
            => IsPrefix(framework.controlIds, framework'.controlIds)]_vars

C35_Witness ==
    /\ last.op = "addControlToFramework"
    /\ last.pre.status = "Deprecated"
    /\ Len(last.pre.controlIds) = 2
    /\ Len(framework.controlIds) = 3
    /\ framework.status = "Deprecated"

\* the error codes of a factory result, in order; none for a success
PortCodes(res) == IF res.ok THEN <<>> ELSE Codes(res.error)

\* C36: the Go port and the TypeScript code agree on the expiry guards: for
\* every combination of expiresAt, collectedAt and current time NewEvidence
\* returns the same error codes as createEvidence, and Risk.WithStatus
\* rejects a transition exactly when updateRiskStatus does, with the same
\* code, also for an expiresAt equal to the current time.
C36_PortsAgreeOnExpiry ==
    /\ last.op = "createEvidence" /\ "go" \in DOMAIN last
         => PortCodes(last.go) = PortCodes(last.res)
    /\ last.op = "updateRiskStatus" /\ "go" \in DOMAIN last
         => /\ last.go.ok <=> last.res.ok
            /\ ~last.res.ok /\ ~last.go.ok
                 => last.go.error.code = last.res.error.code

\* C37: the Go port and the TypeScript code agree on blank-string
\* validation: each Go identifier constructor returns EMPTY_ID for exactly
\* the inputs for which its TypeScript counterpart does, and NewControl
\* returns the same error codes as createControl for every id, code and
\* title.
C37_PortsAgreeOnBlank ==
    /\ last.op \in IdConstructors
         => /\ last.go.ok <=> last.res.ok
            /\ ~last.res.ok /\ ~last.go.ok
                 => last.go.error.code = last.res.error.code
    /\ last.op = "createControl" /\ "go" \in DOMAIN last
         => PortCodes(last.go) = PortCodes(last.res)

====
